---- MODULE Spec2Model ----
(***************************************************************************)
(* Enrollment and roster consistency of dillar-academy-web: the User and   *)
(* Class collections, the Enroll / Unenroll handlers of api/index.js, and  *)
(* the cascading deletes of server/routes/user-routes.js and               *)
(* server/routes/class-routes.js.  Every awaited store call of a handler   *)
(* is one atomic step; a handler is the sequence of its steps.             *)
(* Further: the memoized connection of server/db.js, the paginated student *)
(* list (GET /students-with-classes, in its two copies), the class forms   *)
(* (POST /classes, /conversations, /ielts) and the authorization           *)
(* middleware (requireAuth, requireAdminOrInstructor, allowSelfOrPriv).    *)
(***************************************************************************)
EXTENDS Integers, FiniteSets, Sequences, TLC

\* ------------------------------------------------------------------ bounds
NumUsers == 2
NumClasses == 2
MaxInFlight == 2
MaxAttempts == 2
MaxCallers == 3
MaxSchedule == 2

Users == 1..NumUsers
Classes == 1..NumClasses
Requests == 1..MaxInFlight

\* A request parameter :id that mongoose.Types.ObjectId.isValid rejects.
BadId == 0

\* ------------------------------------------------------- arrays of ObjectIds
\* An array of references is kept as the number of times each id occurs in
\* it (the order of an array is read by none of the handlers modelled).
EmptyArray(S) == [x \in S |-> 0]

\* Array.prototype.includes on a Mongoose array of ObjectIds
Includes(arr, x) == x \in DOMAIN arr /\ arr[x] > 0

Push(arr, x) == IF x \in DOMAIN arr THEN [arr EXCEPT ![x] = @ + 1] ELSE arr

\* $addToSet: add if absent
AddToSet(arr, x) == IF x \in DOMAIN arr /\ arr[x] = 0 THEN [arr EXCEPT ![x] = 1] ELSE arr

PullNothing(arr, x) == arr

\* $pull: remove every occurrence
Pull(arr, x) == IF x \in DOMAIN arr THEN [arr EXCEPT ![x] = 0] ELSE arr

Elements(arr) == {x \in DOMAIN arr : arr[x] > 0}

\* ------------------------------------------------------------- documents
Numeric(n) == [tag |-> "number", n |-> n, s |-> ""]
Sentinel(s) == [tag |-> "string", n |-> 0, s |-> s]

\* The level each class was created with: the conversation track, the IELTS
\* track and a numbered level, in turn.
LevelOf(c) ==
  IF c % 3 = 1 THEN Sentinel("conversation")
  ELSE IF c % 3 = 2 THEN Sentinel("ielts")
  ELSE Numeric(c \div 3)

\* A String field is the sequence of its characters.
\* The e-mail address of a user, unique in the collection.
EmailOf(u) == <<"@">> \o [i \in 1..u |-> "x"]

\* The identity provider's id of the account user u signed up with.
ClerkIdOf(u) == u

\* No document under that _id (never created, or deleted)
NoUser == [exists |-> FALSE, firstName |-> <<>>, lastName |-> <<>>, email |-> <<>>,
           privilege |-> "student", clerkId |-> BadId,
           enrolledClasses |-> EmptyArray(Classes)]
NoClass == [exists |-> FALSE, level |-> Sentinel(""), ageGroup |-> <<>>,
            instructor |-> <<>>, schedule |-> <<>>, roster |-> EmptyArray(Users),
            isEnrollmentOpen |-> FALSE]

\* A student as sign-up stores one, and a class as the class form does.
NewUser(u) == [NoUser EXCEPT !.exists = TRUE, !.firstName = <<"a">>, !.lastName = <<"a">>,
                             !.email = EmailOf(u), !.clerkId = ClerkIdOf(u)]
NewClass(c) == [NoClass EXCEPT !.exists = TRUE, !.level = LevelOf(c), !.ageGroup = <<"k">>,
                               !.instructor = <<"a">>, !.isEnrollmentOpen = TRUE]

VARIABLES
  users,         \* the users collection: _id -> document
  classes,       \* the classes collection: _id -> document
  clerk,         \* the identity provider's records, by the clerkId of user _id
  req,           \* the requests in flight, and the response of a finished one
  pre,           \* the collections as they were when the last request arrived
  repeated,      \* the last request is an Enroll, and so was the one before it: same
                 \* id, same classId, answered 201
  db,            \* server/db.js: the cached connection, the connection attempts and
                 \* the callers of dbConnect
  list,          \* GET /students-with-classes: the query and the responses so far
  gate           \* an authorization middleware at work on a request

vars == <<users, classes, clerk, req, pre, repeated, db, list, gate>>

\* What the handlers of the collections leave alone
others == <<db, list, gate>>

\* req.body of a request that carries none
NoBody == [level |-> Sentinel(""), ageGroup |-> <<>>, instructor |-> <<>>, schedule |-> <<>>]

Idle == [op |-> "none", route |-> "none", id |-> BadId, classId |-> BadId, body |-> NoBody,
         pc |-> "idle", status |-> 0, msg |-> "", pending |-> {}, failed |-> FALSE]

Store == [users |-> users, classes |-> classes, clerk |-> clerk]

\* null
Null == 0

Attempts == 1..MaxAttempts
Callers == 1..MaxCallers

\* let cached = global._mongoose, before dbConnect was ever called; uri: whether
\* MONGODB_URI is set in the environment.
DbStart(uri) ==
  [uri |-> uri, conn |-> Null, promise |-> Null,
   attempt |-> [a \in Attempts |-> "none"],
   caller |-> [k \in Callers |-> [pc |-> "idle", on |-> Null, got |-> Null]]]

\* No query made yet, no middleware at work
NoList == [asked |-> FALSE]
NoGate == [pc |-> "idle"]

\* ------------------------------------------------------------------ Init
\* A consistent database: every edge of the chosen relation is on both
\* sides, every user has its identity-provider record.
InitStore(E, open) ==
  /\ users = [u \in Users |->
       [NewUser(u) EXCEPT
          !.enrolledClasses = [c \in Classes |-> IF <<u, c>> \in E THEN 1 ELSE 0]]]
  /\ classes = [c \in Classes |->
       [NewClass(c) EXCEPT
          !.roster = [u \in Users |-> IF <<u, c>> \in E THEN 1 ELSE 0],
          !.isEnrollmentOpen = open[c]]]
  /\ clerk = Users
  /\ req = [r \in Requests |-> Idle]
  /\ pre = [users |-> users, classes |-> classes, clerk |-> clerk]
  /\ repeated = FALSE
  /\ db = DbStart(TRUE)
  /\ list = NoList
  /\ gate = NoGate

\* Enrollment was closed for no class, or for the first one after students
\* had enrolled in it.
Init ==
  \E E \in SUBSET (Users \X Classes) : \E closed \in SUBSET {1} :
    InitStore(E, [c \in Classes |-> c \notin closed])

\* ------------------------------------------------------- request plumbing
Respond(r, status, msg) ==
  req' = [req EXCEPT ![r] = [@ EXCEPT !.pc = "done", !.status = status, !.msg = msg,
                                      !.pending = {}]]

Goto(r, pc) == req' = [req EXCEPT ![r] = [@ EXCEPT !.pc = pc]]

At(r, op, pc) == req[r].op = op /\ req[r].pc = pc

\* A request arrives on slot r.  `reuse` lets a slot whose request was
\* answered take the next one (requests one at a time); `snap` records the
\* collections at arrival.
Arrive(r, op, route, id, classId, first, reuse, snap) ==
  /\ req[r].pc = "idle" \/ (reuse /\ req[r].pc = "done")
  /\ req' = [req EXCEPT ![r] =
       IF id = BadId
       THEN [Idle EXCEPT !.op = op, !.route = route, !.id = id, !.classId = classId,
                         !.pc = "done", !.status = 400, !.msg = "Invalid ID"]
       ELSE [Idle EXCEPT !.op = op, !.route = route, !.id = id, !.classId = classId,
                         !.pc = first]]
  /\ pre' = IF snap THEN Store ELSE pre
  /\ repeated' = (/\ snap /\ op = "enroll"
                   /\ req[r].op = "enroll" /\ req[r].pc = "done" /\ req[r].status = 201
                   /\ req[r].id = id /\ req[r].classId = classId)
  /\ UNCHANGED <<users, classes, clerk>>

\* ------------------------------------------ PUT /api/users/:id/enroll
EnrolledNever(user, classId) == FALSE

EnrolledAlways(user, classId) == TRUE

\* user.enrolledClasses.includes(classId)
AlreadyEnrolled(user, classId) == Includes(user.enrolledClasses, classId)

EnrollmentAlwaysOpen(cls) == FALSE

EnrollmentClosed(cls) == ~cls.isEnrollmentOpen

StartEnroll(r, id, classId, reuse, snap) ==
  Arrive(r, "enroll", "users", id, classId, "findUser", reuse, snap)

\* const user = await User.findById(id); user.enrolledClasses.includes(classId)
EnrollFindUser(r, f) ==
  /\ At(r, "enroll", "findUser")
  /\ LET user == users[req[r].id] IN
       IF f \/ ~user.exists
       THEN Respond(r, 500, "Error enrolling into class")
       ELSE IF AlreadyEnrolled(user, req[r].classId)
       THEN Respond(r, 400, "Already enrolled in this class")
       ELSE Goto(r, "findClass")
  /\ UNCHANGED <<users, classes, clerk, pre, repeated>>

\* const cls = await Class.findById(classId)
EnrollFindClass(r, f) ==
  /\ At(r, "enroll", "findClass")
  /\ LET cls == IF req[r].classId \in Classes THEN classes[req[r].classId] ELSE NoClass IN
       IF f THEN Respond(r, 500, "Error enrolling into class")
       ELSE IF ~cls.exists THEN Respond(r, 404, "Class not found")
       ELSE IF EnrollmentClosed(cls)
       THEN Respond(r, 403, "Enrollment is currently closed for this class.")
       ELSE Goto(r, "updateUser")
  /\ UNCHANGED <<users, classes, clerk, pre, repeated>>

EnrollUpdateUserSkipped(r, f) ==
  /\ At(r, "enroll", "updateUser")
  /\ Goto(r, "updateClass")
  /\ UNCHANGED <<users, classes, clerk, pre, repeated>>

\* await User.findByIdAndUpdate(id, { $addToSet: { enrolledClasses: classId } })
EnrollUpdateUser(r, f) ==
  /\ At(r, "enroll", "updateUser")
  /\ IF f
     THEN Respond(r, 500, "Error enrolling into class") /\ UNCHANGED users
     ELSE /\ Goto(r, "updateClass")
          /\ users' = [users EXCEPT ![req[r].id] =
               IF @.exists
               THEN [@ EXCEPT !.enrolledClasses = AddToSet(@, req[r].classId)]
               ELSE @]
  /\ UNCHANGED <<classes, clerk, pre, repeated>>

\* await Class.findByIdAndUpdate(classId, { $addToSet: { roster: id } })
EnrollUpdateClass(r, f) ==
  /\ At(r, "enroll", "updateClass")
  /\ IF f
     THEN Respond(r, 500, "Error enrolling into class") /\ UNCHANGED classes
     ELSE /\ Respond(r, 201, "Enrolled successfully!")
          /\ classes' = [classes EXCEPT ![req[r].classId] =
               IF @.exists THEN [@ EXCEPT !.roster = AddToSet(@, req[r].id)] ELSE @]
  /\ UNCHANGED <<users, clerk, pre, repeated>>

\* ---------------------------------------- PUT /api/users/:id/unenroll
StartUnenroll(r, id, classId, reuse, snap) ==
  Arrive(r, "unenroll", "users", id, classId, "findUser", reuse, snap)

\* const user = await User.findById(id); !user.enrolledClasses.includes(classId)
UnenrollFindUser(r, f) ==
  /\ At(r, "unenroll", "findUser")
  /\ LET user == users[req[r].id] IN
       IF f \/ ~user.exists
       THEN Respond(r, 500, "Error unenrolling into class")
       ELSE IF ~AlreadyEnrolled(user, req[r].classId)
       THEN Respond(r, 400, "Not enrolled in this class")
       ELSE Goto(r, "updateUser")
  /\ UNCHANGED <<users, classes, clerk, pre, repeated>>

\* await User.findByIdAndUpdate(id, { $pull: { enrolledClasses: classId } })
UnenrollUpdateUser(r, f) ==
  /\ At(r, "unenroll", "updateUser")
  /\ IF f
     THEN Respond(r, 500, "Error unenrolling into class") /\ UNCHANGED users
     ELSE /\ Goto(r, "updateClass")
          /\ users' = [users EXCEPT ![req[r].id] =
               IF @.exists
               THEN [@ EXCEPT !.enrolledClasses = Pull(@, req[r].classId)]
               ELSE @]
  /\ UNCHANGED <<classes, clerk, pre, repeated>>

\* await Class.findByIdAndUpdate(classId, { $pull: { roster: id } })
UnenrollUpdateClass(r, f) ==
  /\ At(r, "unenroll", "updateClass")
  /\ IF f
     THEN Respond(r, 500, "Error unenrolling into class") /\ UNCHANGED classes
     ELSE /\ Respond(r, 201, "Successfully unenrolled")
          /\ classes' = [classes EXCEPT ![req[r].classId] =
               IF @.exists THEN [@ EXCEPT !.roster = Pull(@, req[r].id)] ELSE @]
  /\ UNCHANGED <<users, clerk, pre, repeated>>

\* ------------------------------------------------- DELETE /user/:id
CascadeSkipped(arr) == {}

\* The ids a cascade issues a removal for: array.map over the references
CascadeTargets(arr) == Elements(arr)

StartDeleteUser(r, id, reuse, snap) ==
  Arrive(r, "deleteUser", "user", id, BadId, "findUser", reuse, snap)

\* const deletedUser = await User.findById(id); the cascade is issued for
\* every element of deletedUser.enrolledClasses when the array is not empty.
DeleteUserFind(r, f) ==
  /\ At(r, "deleteUser", "findUser")
  /\ LET deletedUser == users[req[r].id]
         targets == CascadeTargets(deletedUser.enrolledClasses) IN
       IF f THEN Respond(r, 500, "Failed to delete user")
       ELSE IF ~deletedUser.exists THEN Respond(r, 404, "User not found")
       ELSE IF targets = {} THEN Goto(r, "clerk")
       ELSE req' = [req EXCEPT ![r] = [@ EXCEPT !.pc = "cascade", !.pending = targets]]
  /\ UNCHANGED <<users, classes, clerk, pre, repeated>>

\* Whether a removal that fails rejects the Promise.all of its cascade
\* (.catch rethrows) or is only logged (.catch returns).
RethrowsOnlyForClasses(op, route) == route = "classes"

Rethrows(op, route) == op = "deleteUser" \/ route = "classes"

CascadeAbandoned(q, t, f, next, failedMsg) ==
  LET loud == f /\ Rethrows(q.op, q.route)
      left == IF loud THEN {} ELSE q.pending \ {t} IN
    [q EXCEPT !.pending = left,
              !.failed = @ \/ f,
              !.status = IF loud THEN 500 ELSE @,
              !.msg = IF loud THEN failedMsg ELSE @,
              !.pc = IF loud THEN "done"
                     ELSE (IF left = {} THEN next ELSE "cascade")]

\* The request after one removal of its cascade settled.  The removals were
\* all issued by .map before the first await, so the ones still pending
\* settle whatever the others did; the first rejection that is rethrown
\* takes the handler to its catch block (500) while they do.
CascadeSettled(q, t, f, next, failedMsg) ==
  LET left == q.pending \ {t}
      loud == f /\ Rethrows(q.op, q.route) IN
    [q EXCEPT !.pending = left,
              !.failed = @ \/ f,
              !.status = IF loud THEN 500 ELSE @,
              !.msg = IF loud THEN failedMsg ELSE @,
              !.pc = IF loud \/ q.pc = "drain"
                     THEN (IF left = {} THEN "done" ELSE "drain")
                     ELSE (IF left = {} THEN next ELSE "cascade")]

\* Class.findByIdAndUpdate(classId, { $pull: { roster: id } }).catch(...)
DeleteUserCascade(r, f) ==
  /\ req[r].op = "deleteUser" /\ req[r].pc \in {"cascade", "drain"}
  /\ \E classId \in req[r].pending :
       /\ classes' = IF f \/ ~classes[classId].exists THEN classes
                     ELSE [classes EXCEPT ![classId].roster = Pull(@, req[r].id)]
       /\ req' = [req EXCEPT ![r] = CascadeSettled(@, classId, f, "clerk", "Failed to delete user")]
  /\ UNCHANGED <<users, clerk, pre, repeated>>

\* await clerkClient.users.deleteUser(deletedUser.clerkId)
DeleteUserClerk(r, f) ==
  /\ At(r, "deleteUser", "clerk")
  /\ IF f \/ req[r].id \notin clerk
     THEN Respond(r, 500, "Failed to delete user") /\ UNCHANGED clerk
     ELSE Goto(r, "deleteDoc") /\ clerk' = clerk \ {req[r].id}
  /\ UNCHANGED <<users, classes, pre, repeated>>

\* await User.findByIdAndDelete(id)
DeleteUserDoc(r, f) ==
  /\ At(r, "deleteUser", "deleteDoc")
  /\ IF f
     THEN Respond(r, 500, "Failed to delete user") /\ UNCHANGED users
     ELSE /\ Respond(r, 204, "User deleted successfully")
          /\ users' = [users EXCEPT ![req[r].id] = NoUser]
  /\ UNCHANGED <<classes, clerk, pre, repeated>>

\* ------------- DELETE /classes/:id, /conversations/:id, /ielts/:id
ClassRoutes == {"classes", "conversations", "ielts"}

\* The filter of the route's Class.findOne: { _id: id } for /classes,
\* { _id: id, level: "conversation" | "ielts" } for the two tracks.
RouteFinds(route, cls) ==
  /\ cls.exists
  /\ route = "conversations" => cls.level = Sentinel("conversation")
  /\ route = "ielts" => cls.level = Sentinel("ielts")

NotFoundMsg(route) ==
  IF route = "conversations" THEN "Conversation not found"
  ELSE IF route = "ielts" THEN "IELTS class not found"
  ELSE "Class not found"

FailedMsg(route) ==
  IF route = "conversations" THEN "Failed to delete conversation class"
  ELSE IF route = "ielts" THEN "Failed to delete IELTS class"
  ELSE "Failed to delete class"

DeletedMsg(route) ==
  IF route = "conversations" THEN "Conversation deleted successfully"
  ELSE IF route = "ielts" THEN "IELTS class deleted successfully"
  ELSE "Class deleted successfully"

StartDeleteClass(r, route, id, reuse, snap) ==
  Arrive(r, "deleteClass", route, id, BadId, "findClass", reuse, snap)

\* const deletedClass = await Class.findOne({ _id: id [, level] })
DeleteClassFind(r, f) ==
  /\ At(r, "deleteClass", "findClass")
  /\ LET deletedClass == classes[req[r].id]
         targets == CascadeTargets(deletedClass.roster) IN
       IF f THEN Respond(r, 500, FailedMsg(req[r].route))
       ELSE IF ~RouteFinds(req[r].route, deletedClass)
       THEN Respond(r, 404, NotFoundMsg(req[r].route))
       ELSE IF targets = {} THEN Goto(r, "deleteDoc")
       ELSE req' = [req EXCEPT ![r] = [@ EXCEPT !.pc = "cascade", !.pending = targets]]
  /\ UNCHANGED <<users, classes, clerk, pre, repeated>>

\* User.findByIdAndUpdate(studentId, { $pull: { enrolledClasses: id } }).catch(...)
DeleteClassCascade(r, f) ==
  /\ req[r].op = "deleteClass" /\ req[r].pc \in {"cascade", "drain"}
  /\ \E studentId \in req[r].pending :
       /\ users' = IF f \/ ~users[studentId].exists THEN users
                   ELSE [users EXCEPT ![studentId].enrolledClasses = Pull(@, req[r].id)]
       /\ req' = [req EXCEPT ![r] =
            CascadeSettled(@, studentId, f, "deleteDoc", FailedMsg(req[r].route))]
  /\ UNCHANGED <<classes, clerk, pre, repeated>>

\* await Class.findByIdAndDelete(id)
DeleteClassDoc(r, f) ==
  /\ At(r, "deleteClass", "deleteDoc")
  /\ IF f
     THEN Respond(r, 500, FailedMsg(req[r].route)) /\ UNCHANGED classes
     ELSE /\ Respond(r, 204, DeletedMsg(req[r].route))
          /\ classes' = [classes EXCEPT ![req[r].id] = NoClass]
  /\ UNCHANGED <<users, clerk, pre, repeated>>

\* ------------------------------------------------------ specifications
\* One store call of the request on slot r; f: the call fails.
Step(r, f) ==
  \/ EnrollFindUser(r, f)
  \/ EnrollFindClass(r, f)
  \/ EnrollUpdateUser(r, f)
  \/ EnrollUpdateClass(r, f)
  \/ UnenrollFindUser(r, f)
  \/ UnenrollUpdateUser(r, f)
  \/ UnenrollUpdateClass(r, f)
  \/ DeleteUserFind(r, f)
  \/ DeleteUserCascade(r, f)
  \/ DeleteUserClerk(r, f)
  \/ DeleteUserDoc(r, f)
  \/ DeleteClassFind(r, f)
  \/ DeleteClassCascade(r, f)
  \/ DeleteClassDoc(r, f)

Begin(r, reuse, snap) ==
  \/ \E id \in Users \cup {BadId} : \E classId \in Classes :
       StartEnroll(r, id, classId, reuse, snap)
  \/ \E id \in Users \cup {BadId} : \E classId \in Classes :
       StartUnenroll(r, id, classId, reuse, snap)
  \/ \E id \in Users \cup {BadId} : StartDeleteUser(r, id, reuse, snap)
  \/ \E route \in ClassRoutes : \E id \in Classes \cup {BadId} :
       StartDeleteClass(r, route, id, reuse, snap)

\* Requests served one at a time, every store call succeeding.
Next == (Begin(1, TRUE, TRUE) \/ Step(1, FALSE)) /\ UNCHANGED others

Spec == Init /\ [][Next]_vars

\* One request in all, whose store calls (and the identity provider's) may
\* each fail.
NextFault == (Begin(1, FALSE, TRUE) \/ \E f \in BOOLEAN : Step(1, f)) /\ UNCHANGED others

SpecFault == Init /\ [][NextFault]_vars

\* Up to MaxInFlight requests, their store calls interleaved, none failing.
NextConc ==
  (\E r \in Requests : Begin(r, FALSE, FALSE) \/ Step(r, FALSE)) /\ UNCHANGED others

SpecConc == Init /\ [][NextConc]_vars

\* Up to MaxInFlight Enroll requests, their store calls interleaved, on a
\* database in which no one is enrolled yet.
InitRace == \E closed \in SUBSET {1} : InitStore({}, [c \in Classes |-> c \notin closed])

NextRace ==
  /\ \E r \in Requests :
       \/ \E id \in Users \cup {BadId} : \E classId \in Classes :
            StartEnroll(r, id, classId, FALSE, FALSE)
       \/ EnrollFindUser(r, FALSE)
       \/ EnrollFindClass(r, FALSE)
       \/ EnrollUpdateUser(r, FALSE)
       \/ EnrollUpdateClass(r, FALSE)
  /\ UNCHANGED others

SpecRace == InitRace /\ [][NextRace]_vars

\* ------------------------------------------------------------ properties
AllAnswered == \A r \in Requests : req[r].pc \in {"idle", "done"}

Answered(r, op) == req[r].pc = "done" /\ req[r].op = op /\ req[r].id # BadId

\* c.id in u.enrolledClasses <=> class c exists and u.id in c.roster
Mirror ==
  \A u \in Users : \A c \in Classes :
    users[u].exists =>
      (Includes(users[u].enrolledClasses, c)
         <=> (classes[c].exists /\ Includes(classes[c].roster, u)))

NoDeletedUserOnRoster ==
  \A c \in Classes : \A u \in Users :
    (classes[c].exists /\ Includes(classes[c].roster, u)) => users[u].exists

Unchanged == users = pre.users /\ classes = pre.classes

\* C1: with requests served one at a time and no failing call, whenever no
\* request is in flight every existing user has class c in enrolledClasses
\* exactly when class c exists and has the user on its roster, and no roster
\* names a deleted user.
C1_MirrorSequential == AllAnswered => (Mirror /\ NoDeletedUserOnRoster)

C1_Witness ==
  /\ Answered(1, "deleteUser") /\ req[1].status = 204
  /\ Elements(pre.users[req[1].id].enrolledClasses) # {}
  /\ \E c \in Classes : ~classes[c].exists
  /\ \E u \in Users : \E c \in Classes : Includes(users[u].enrolledClasses, c)

\* C2: with the store calls of concurrent requests interleaved, once every
\* request is answered the mirror invariant holds.
C2_MirrorConcurrent == AllAnswered => Mirror

\* C3: an Enroll(u, c) that follows an Enroll(u, c) answered 201 is answered
\* 400 "already enrolled", changes neither collection, and leaves c once in
\* u.enrolledClasses and u once in c.roster.
C3_EnrollTwice ==
  \A r \in Requests :
    (Answered(r, "enroll") /\ repeated) =>
      /\ req[r].status = 400 /\ req[r].msg = "Already enrolled in this class"
      /\ Unchanged
      /\ users[req[r].id].enrolledClasses[req[r].classId] = 1
      /\ classes[req[r].classId].roster[req[r].id] = 1

C3_Witness == Answered(1, "enroll") /\ repeated

\* C4: Unenroll(u, c) for an existing user u without c in enrolledClasses is
\* answered 400 "not enrolled" and changes neither collection.
C4_UnenrollNotEnrolled ==
  \A r \in Requests :
    (/\ Answered(r, "unenroll")
     /\ pre.users[req[r].id].exists
     /\ ~Includes(pre.users[req[r].id].enrolledClasses, req[r].classId)) =>
      /\ req[r].status = 400 /\ req[r].msg = "Not enrolled in this class"
      /\ Unchanged

C4_Witness ==
  /\ Answered(1, "unenroll")
  /\ pre.users[req[1].id].exists
  /\ ~Includes(pre.users[req[1].id].enrolledClasses, req[1].classId)
  /\ \E u \in Users : \E c \in Classes : Includes(users[u].enrolledClasses, c)

\* C5 as stated: Enroll(u, c) by an existing user on an existing class with
\* isEnrollmentOpen false is answered 403, on a class id matching no Class
\* 404, and changes neither collection.
C5_AsStated ==
  \A r \in Requests :
    (Answered(r, "enroll") /\ pre.users[req[r].id].exists) =>
      LET cls == pre.classes[req[r].classId] IN
        /\ ~cls.exists => (req[r].status = 404 /\ Unchanged)
        /\ (cls.exists /\ ~cls.isEnrollmentOpen) => (req[r].status = 403 /\ Unchanged)

\* C5 amended: the same for an existing user who is not already enrolled in
\* c; a user already enrolled is answered 400 before the class is looked up.
\* In every case neither collection changes.
C5_EnrollRefused ==
  \A r \in Requests :
    (Answered(r, "enroll") /\ pre.users[req[r].id].exists) =>
      LET cls == pre.classes[req[r].classId]
          already == Includes(pre.users[req[r].id].enrolledClasses, req[r].classId) IN
        /\ (~cls.exists /\ ~already) =>
             (req[r].status = 404 /\ req[r].msg = "Class not found" /\ Unchanged)
        /\ (cls.exists /\ ~cls.isEnrollmentOpen /\ ~already) =>
             (req[r].status = 403 /\ Unchanged)
        /\ ((~cls.exists \/ ~cls.isEnrollmentOpen) /\ already) =>
             (req[r].status = 400 /\ Unchanged)

C5_Witness ==
  /\ Answered(1, "enroll") /\ req[1].status = 403
  /\ pre.users[req[1].id].exists
  /\ \E c \in Classes : ~classes[c].exists

\* C6: after DELETE /user/:id answered 204 the user does not exist and no
\* existing class has the user's id on its roster.
C6_DeleteUserCascade ==
  \A r \in Requests :
    (Answered(r, "deleteUser") /\ req[r].status = 204) =>
      /\ ~users[req[r].id].exists
      /\ \A c \in Classes : classes[c].exists => ~Includes(classes[c].roster, req[r].id)

C6_Witness ==
  /\ Answered(1, "deleteUser") /\ req[1].status = 204
  /\ Cardinality(Elements(pre.users[req[1].id].enrolledClasses)) >= 2

C8_DeleteClassFailsLoud ==
  \A r \in Requests :
    (Answered(r, "deleteClass") /\ req[r].failed) =>
      /\ req[r].status = 500
      /\ classes[req[r].id].exists

\* C9: a DELETE /user/:id one of whose roster removals failed is answered
\* 500, and deletes neither the identity provider's record nor the User.
C9_DeleteUserFailsLoud ==
  \A r \in Requests :
    (req[r].op = "deleteUser" /\ req[r].failed) =>
      /\ req[r].pc \in {"drain", "done"}
      /\ req[r].status = 500
      /\ users[req[r].id].exists
      /\ clerk = pre.clerk /\ req[r].id \in clerk

C9_Witness ==
  /\ Answered(1, "deleteUser") /\ req[1].failed
  /\ Cardinality(Elements(pre.users[req[1].id].enrolledClasses)) >= 2
  /\ \E c \in Classes : ~Includes(classes[c].roster, req[1].id)

\* C10: two Enroll requests for the same user and class, both answered and
\* at least one of them with 201, leave the class id once in the user's
\* enrolledClasses and the user id once in the class's roster.
C10_ConcurrentEnrollOnce ==
  \A r1 \in Requests : \A r2 \in Requests \ {r1} :
    (/\ Answered(r1, "enroll") /\ Answered(r2, "enroll")
     /\ req[r1].id = req[r2].id /\ req[r1].classId = req[r2].classId
     /\ req[r1].status = 201) =>
      /\ users[req[r1].id].enrolledClasses[req[r1].classId] = 1
      /\ classes[req[r1].classId].roster[req[r1].id] = 1

\* both passed the "already enrolled" check before either wrote
C10_Witness ==
  /\ Answered(1, "enroll") /\ Answered(2, "enroll")
  /\ req[1].id = req[2].id /\ req[1].classId = req[2].classId
  /\ req[1].status = 201 /\ req[2].status = 201

\* ------------------------------------------------------ server/db.js
\* A connection attempt is mongoose.connect(...).then(m => m).catch(...): it is
\* "pending" until the driver answers, "connected" when it resolved, "failed"
\* when the driver rejected and the catch handler has not run yet, "rejected"
\* once it has.  The connection an attempt opens is named by the attempt.
AlwaysAttempt(c) == TRUE

\* if (!cached.promise)
NeedsAttempt(c) == c.promise = Null

Unused == {a \in Attempts : db.attempt[a] = "none"}

\* A caller enters dbConnect() and runs it up to its await.
DbCall(k) ==
  /\ db.caller[k].pc \in {"idle", "returned", "threw"}
  /\ IF db.conn # Null
     THEN db' = [db EXCEPT !.caller[k] = [pc |-> "returned", on |-> Null, got |-> db.conn]]
     ELSE IF ~db.uri
     THEN db' = [db EXCEPT !.caller[k] = [pc |-> "threw", on |-> Null, got |-> Null]]
     ELSE IF NeedsAttempt(db)
     THEN /\ Unused # {}
          /\ LET a == CHOOSE x \in Unused : \A y \in Unused : x <= y
             IN db' = [db EXCEPT !.attempt[a] = "pending", !.promise = a,
                                 !.caller[k] = [pc |-> "await", on |-> a, got |-> Null]]
     ELSE db' = [db EXCEPT !.caller[k] = [pc |-> "await", on |-> db.promise, got |-> Null]]
  /\ UNCHANGED <<users, classes, clerk, req, pre, repeated, list, gate>>

\* The driver connects.
ConnectResolves(a) ==
  /\ db.attempt[a] = "pending"
  /\ db' = [db EXCEPT !.attempt[a] = "connected"]
  /\ UNCHANGED <<users, classes, clerk, req, pre, repeated, list, gate>>

\* The driver gives up.
ConnectRejects(a) ==
  /\ db.attempt[a] = "pending"
  /\ db' = [db EXCEPT !.attempt[a] = "failed"]
  /\ UNCHANGED <<users, classes, clerk, req, pre, repeated, list, gate>>

CatchKeepsPromise(a) ==
  /\ db.attempt[a] = "failed"
  /\ db' = [db EXCEPT !.attempt[a] = "rejected"]
  /\ UNCHANGED <<users, classes, clerk, req, pre, repeated, list, gate>>

\* .catch((err) => { cached.promise = null; throw err; })
CatchHandler(a) ==
  /\ db.attempt[a] = "failed"
  /\ db' = [db EXCEPT !.attempt[a] = "rejected", !.promise = Null]
  /\ UNCHANGED <<users, classes, clerk, req, pre, repeated, list, gate>>

\* cached.conn = await cached.promise; return cached.conn;
AwaitResume(k) ==
  /\ db.caller[k].pc = "await"
  /\ LET a == db.caller[k].on
     IN \/ /\ db.attempt[a] = "connected"
           /\ db' = [db EXCEPT !.conn = a,
                               !.caller[k] = [pc |-> "returned", on |-> Null, got |-> a]]
        \/ /\ db.attempt[a] = "rejected"
           /\ db' = [db EXCEPT !.caller[k] = [pc |-> "threw", on |-> Null, got |-> Null]]
  /\ UNCHANGED <<users, classes, clerk, req, pre, repeated, list, gate>>

\* A process that has not connected yet, its requests calling dbConnect() as
\* they come in.
InitDb ==
  /\ InitStore({}, [c \in Classes |-> TRUE])
  /\ \E uri \in BOOLEAN : db = DbStart(uri)

NextDb ==
  \/ \E k \in Callers : DbCall(k) \/ AwaitResume(k)
  \/ \E a \in Attempts : ConnectResolves(a) \/ ConnectRejects(a) \/ CatchHandler(a)

SpecDb == InitDb /\ [][NextDb]_vars

InFlight == {a \in Attempts : db.attempt[a] = "pending"}

\* C11: at most one connection attempt is in flight at any time; every caller
\* that got a connection got the cached one, which is the only one ever
\* opened; and while a connection is cached no attempt is in flight.
C11_OneConnection ==
  /\ Cardinality(InFlight) <= 1
  /\ Cardinality({a \in Attempts : db.attempt[a] = "connected"}) <= 1
  /\ \A k \in Callers : db.caller[k].pc = "returned" =>
       db.caller[k].got = db.conn /\ db.attempt[db.conn] = "connected"
  /\ db.conn # Null => InFlight = {}

\* Two calls overlapped on one attempt, which succeeded after an earlier one
\* had failed: one caller has its connection, the other is about to get it.
C11_Witness ==
  \E k1, k2 \in Callers :
    /\ k1 # k2
    /\ db.caller[k1].pc = "returned"
    /\ db.caller[k2].pc = "await" /\ db.caller[k2].on = db.caller[k1].got
    /\ \E a \in Attempts : db.attempt[a] = "rejected"

\* ------------------------------------------------------------- strings
\* The UTF-16 code unit of a character
CodeOf(ch) ==
  CASE ch = "@" -> 64 [] ch = "A" -> 65 [] ch = "B" -> 66
    [] ch = "a" -> 97 [] ch = "b" -> 98 [] ch = "k" -> 107 [] ch = "x" -> 120
    [] OTHER -> 0

ToLower(ch) == CASE ch = "A" -> "a" [] ch = "B" -> "b" [] OTHER -> ch

LowerCase(str) == [i \in 1..Len(str) |-> ToLower(str[i])]

Min(a, b) == IF a < b THEN a ELSE b
Max(a, b) == IF a > b THEN a ELSE b

\* The store's order on strings: code unit by code unit, a prefix first
StrLess(str, t) ==
  \/ \E i \in 1..Min(Len(str), Len(t)) :
       /\ \A j \in 1..(i - 1) : str[j] = t[j]
       /\ CodeOf(str[i]) < CodeOf(t[i])
  \/ Len(str) < Len(t) /\ \A j \in 1..Len(str) : str[j] = t[j]

Contains(str, part) ==
  \E i \in 0..(Len(str) - Len(part)) : \A j \in 1..Len(part) : str[i + j] = part[j]

\* The characters escapeRx puts a backslash before: /[-/\\^$*+?.()|[\]{}]/g
ServerSpecial ==
  {"-", "/", "\\", "^", "$", "*", "+", "?", ".", "(", ")", "|", "[", "]", "{", "}"}

\* The same of the pipeline's escape: /[.*+?^${}()|[\]\\]/g
ApiSpecial == {".", "*", "+", "?", "^", "$", "{", "}", "(", ")", "|", "[", "]", "\\"}

\* s.replace(special, "\\$&")
RECURSIVE Replace(_, _)
Replace(special, s) ==
  IF s = <<>> THEN <<>>
  ELSE (IF Head(s) \in special THEN <<"\\", Head(s)>> ELSE <<Head(s)>>)
         \o Replace(special, Tail(s))

EscapeNothing(s) == s

\* const escapeRx = (s) => s.replace(/[-/\\^$*+?.()|[\]{}]/g, "\\$&")
EscapeRx(s) == Replace(ServerSpecial, s)

\* const escape = (s) => s.replace(/[.*+?^${}()|[\]\\]/g, "\\$&")
Escape(s) == Replace(ApiSpecial, s)

\* s.trim(), the white space being the space character
RECURSIVE TrimStart(_)
TrimStart(s) == IF s # <<>> /\ Head(s) = " " THEN TrimStart(Tail(s)) ELSE s

RECURSIVE TrimEnd(_)
TrimEnd(s) ==
  IF s # <<>> /\ s[Len(s)] = " " THEN TrimEnd(SubSeq(s, 1, Len(s) - 1)) ELSE s

Trim(s) == TrimEnd(TrimStart(s))

\* new RegExp(source): the pattern's atoms, for sources written with
\* letters, spaces, "-", ".", "*" and the backslash.  An atom is a character
\* or any character ("."), once or any number of times ("*"); a backslash
\* makes the next character stand for itself.  A "*" with nothing to repeat
\* and a backslash at the end are syntax errors.
RECURSIVE Compile(_)
Compile(source) ==
  IF source = <<>> THEN [ok |-> TRUE, atoms |-> <<>>]
  ELSE IF Head(source) = "*" \/ (Head(source) = "\\" /\ Len(source) = 1)
  THEN [ok |-> FALSE, atoms |-> <<>>]
  ELSE LET escaped == Head(source) = "\\"
           n == IF escaped THEN 2 ELSE 1
           star == Len(source) > n /\ source[n + 1] = "*"
           rest == Compile(SubSeq(source, n + (IF star THEN 2 ELSE 1), Len(source)))
           atom == [ch |-> source[n], any |-> ~escaped /\ source[n] = ".", star |-> star] IN
         [ok |-> rest.ok, atoms |-> <<atom>> \o rest.atoms]

\* Whether the atoms match at the start of str, letter case aside (flag "i")
RECURSIVE MatchHere(_, _)
MatchHere(atoms, str) ==
  IF atoms = <<>> THEN TRUE
  ELSE LET a == Head(atoms)
           fits == str # <<>> /\ (a.any \/ ToLower(Head(str)) = ToLower(a.ch)) IN
         IF a.star
         THEN MatchHere(Tail(atoms), str) \/ (fits /\ MatchHere(atoms, Tail(str)))
         ELSE fits /\ MatchHere(Tail(atoms), Tail(str))

\* rx.test(str), rx a compiled pattern: a match starting anywhere
Test(rx, str) ==
  \E i \in 0..Len(str) : MatchHere(rx.atoms, SubSeq(str, i + 1, Len(str)))

\* new RegExp(escapeRx(q), "i").test(str)
RxTest(q, str) == Test(Compile(EscapeRx(q)), str)

\* ----------------------------------------- GET /api/students-with-classes
DefaultLimit == 100
MaxLimit == 200

\* A query parameter that stands for a number: left out, or the number written
Absent == [given |-> FALSE, n |-> 0]
Given(n) == [given |-> TRUE, n |-> n]

\* Number(x) || d: the number is NaN when the parameter is left out
OrDefault(x, d) == IF x.given /\ x.n # 0 THEN x.n ELSE d

LimitOf(x) == Max(1, Min(MaxLimit, OrDefault(x, DefaultLimit)))
PageOf(x) == Max(1, OrDefault(x, 1))
SkipOf(page, limit) == (page - 1) * limit

\* Number(raw) of the level parameters asked with; NaN for the others
Numerals == ("1" :> 1) @@ ("2" :> 2)

\* raw.toLowerCase()
ToLowerCase(raw) == IF raw = "IELTS" THEN "ielts" ELSE raw

\* server/routes: Number.isNaN(Number(raw)) ? raw.toLowerCase() : Number(raw)
ServerParsed(raw) ==
  IF raw \in DOMAIN Numerals THEN Numeric(Numerals[raw]) ELSE Sentinel(ToLowerCase(raw))

\* api/routes: Number.isNaN(Number(levelRaw)) ? levelRaw : Number(levelRaw)
ApiLevelFilter(raw) ==
  IF raw \in DOMAIN Numerals THEN Numeric(Numerals[raw]) ELSE Sentinel(raw)

EveryClass(parsed) == {c \in Classes : classes[c].exists}

\* Class.find({ level: parsed }): the level is a Mixed field, compared without a cast
LevelIds(parsed) == {c \in Classes : classes[c].exists /\ classes[c].level = parsed}

\* Class.find({ $or: [{ instructor: rx }, { ageGroup: rx }] })
QIds(q) ==
  {c \in Classes : /\ classes[c].exists
                   /\ RxTest(q, classes[c].instructor) \/ RxTest(q, classes[c].ageGroup)}

\* { $or: [{ firstName: rx }, { lastName: rx }, { email: rx }] }
UserOr(u, q) ==
  \/ RxTest(q, users[u].firstName)
  \/ RxTest(q, users[u].lastName)
  \/ RxTest(q, users[u].email)

\* { enrolledClasses: { $in: ids } }
InIds(arr, ids) == Elements(arr) \cap ids # {}

\* server/routes: the users userFilter finds; level = "" and q = <<>> stand for
\* a parameter left out or blank.
ServerUserFilter(level, q) ==
  {u \in Users :
     /\ users[u].exists /\ users[u].privilege = "student"
     /\ q # <<>> => UserOr(u, q)
     /\ level # "" => InIds(users[u].enrolledClasses, LevelIds(ServerParsed(level)))
     /\ (q # <<>> /\ QIds(q) # {}) => InIds(users[u].enrolledClasses, QIds(q))}

\* api/routes: the users the pipeline lets through to $sort
ApiPipeline(level, q) ==
  {u \in Users :
     /\ users[u].exists /\ users[u].privilege = "student"
     /\ q # <<>> => UserOr(u, q)
     /\ level # "" =>
          \E c \in Elements(users[u].enrolledClasses) :
            classes[c].exists /\ classes[c].level = ApiLevelFilter(level)}

\* .sort({ lastName: 1, firstName: 1 })
ServerBefore(u, v) ==
  \/ StrLess(users[u].lastName, users[v].lastName)
  \/ /\ users[u].lastName = users[v].lastName
     /\ StrLess(users[u].firstName, users[v].firstName)

\* { $sort: { lastName: 1, firstName: 1, _id: 1 } }
ApiBefore(u, v) ==
  \/ ServerBefore(u, v)
  \/ /\ users[u].lastName = users[v].lastName
     /\ users[u].firstName = users[v].firstName
     /\ u < v

\* The orders in which a sort may hand S over: documents the sort key does
\* not tell apart come in an order of the store's choosing.
Sorts(S, variant) ==
  {ord \in [1..Cardinality(S) -> S] :
     /\ \A i, j \in 1..Cardinality(S) : i # j => ord[i] # ord[j]
     /\ \A i, j \in 1..Cardinality(S) : i < j =>
          ~(IF variant = "server" THEN ServerBefore(ord[j], ord[i])
            ELSE ApiBefore(ord[j], ord[i]))}

\* .skip(skip).limit(limit)
Slice(ord, skip, limit) == SubSeq(ord, skip + 1, Min(skip + limit, Len(ord)))

Variants == {"server", "api"}

Found(variant, level, q) ==
  IF variant = "server" THEN ServerUserFilter(level, q) ELSE ApiPipeline(level, q)

\* res.json({ items, total, page, limit }); skip is kept beside them.
Listed(variant, limitIn, pageIn, level, q, ord) ==
  LET limit == LimitOf(limitIn)
      page == PageOf(pageIn)
      skip == SkipOf(page, limit)
  IN IF variant = "server" /\ level # "" /\ LevelIds(ServerParsed(level)) = {}
     THEN [status |-> 200, items |-> <<>>, total |-> 0, page |-> page, limit |-> limit,
           skip |-> skip]
     ELSE [status |-> 200, items |-> Slice(ord, skip, limit),
           total |-> Cardinality(Found(variant, level, q)),
           page |-> page, limit |-> limit, skip |-> skip]

NoResp == [status |-> 0]

\* The client asks for one of its pages; the query's other parameters are
\* those it started with.
Fetch(pageIn) ==
  /\ list.asked
  /\ pageIn \in list.pages
  /\ list.resp[pageIn] = NoResp
  /\ \E ord \in Sorts(Found(list.variant, list.level, list.q), list.variant) :
       list' = [list EXCEPT !.resp[pageIn] =
                  Listed(list.variant, list.limit, pageIn, list.level, list.q, ord)]
  /\ UNCHANGED <<users, classes, clerk, req, pre, repeated, db, gate>>

\* The collections a query is made on: last and first names ln, fn, roles
\* priv, enrollments E, class levels lv, instructors ins.
InitListStore(ln, fn, priv, E, lv, ins) ==
  /\ users = [u \in Users |->
       [NewUser(u) EXCEPT
          !.lastName = ln[u], !.firstName = fn[u], !.privilege = priv[u],
          !.enrolledClasses = [c \in Classes |-> IF <<u, c>> \in E THEN 1 ELSE 0]]]
  /\ classes = [c \in Classes |->
       [NewClass(c) EXCEPT
          !.level = lv[c], !.instructor = ins[c],
          !.roster = [u \in Users |-> IF <<u, c>> \in E THEN 1 ELSE 0]]]
  /\ clerk = Users
  /\ req = [r \in Requests |-> Idle]
  /\ pre = [users |-> users, classes |-> classes, clerk |-> clerk]
  /\ repeated = FALSE
  /\ db = DbStart(TRUE)
  /\ gate = NoGate

Query(variant, limit, level, q, pages) ==
  [asked |-> TRUE, variant |-> variant, limit |-> limit, level |-> level, q |-> q,
   pages |-> pages, resp |-> [p \in pages |-> NoResp]]

\* Names that differ from user to user
DistinctName(u) == [i \in 1..u |-> "a"]

\* The last user may be a member of staff.
Roles == {priv \in [Users -> {"student", "instructor"}] :
            \A u \in Users : u # NumUsers => priv[u] = "student"}

MaxPage == NumUsers + 1

LimitInputs == {Absent} \cup {Given(n) : n \in {-1, 0, 1, 2, MaxLimit, MaxLimit + 1}}
PageInputs == {Absent} \cup {Given(n) : n \in (-1)..MaxPage}

NextList == \E pageIn \in PageInputs : Fetch(pageIn)

\* Any limit and any page, no filter, students of different names.
InitClamp ==
  /\ InitListStore([u \in Users |-> DistinctName(u)], [u \in Users |-> <<"a">>],
                   [u \in Users |-> "student"], {}, [c \in Classes |-> LevelOf(c)],
                   [c \in Classes |-> <<"a">>])
  /\ \E variant \in Variants : \E limit \in LimitInputs :
       list = Query(variant, limit, "", <<>>, PageInputs)

SpecClamp == InitClamp /\ [][NextList]_vars

\* Pages 1, 2, ... of a small limit, no filter, students whose names may
\* coincide.
InitPages ==
  /\ \E ln \in [Users -> {<<"a">>, <<"b">>}] : \E fn \in [Users -> {<<"a">>, <<"a", "b">>}] :
     \E priv \in Roles :
       InitListStore(ln, fn, priv, {}, [c \in Classes |-> LevelOf(c)],
                     [c \in Classes |-> <<"a">>])
  /\ \E variant \in Variants : \E limit \in {Given(1), Given(2)} :
       list = Query(variant, limit, "", <<>>, {Given(k) : k \in 1..MaxPage})

SpecPages == InitPages /\ [][NextList]_vars

\* The levels classes are stored with: a number, the same written as a
\* string, a track.
ListLevels == {Numeric(1), Sentinel("1"), Sentinel("ielts")}

LevelParams == {"1", "2", "ielts", "IELTS"}

\* A level filter, first page of the default limit, any enrollments.
InitLevel ==
  /\ \E E \in SUBSET (Users \X Classes) : \E lv \in [Classes -> ListLevels] :
     \E priv \in Roles :
       InitListStore([u \in Users |-> DistinctName(u)], [u \in Users |-> <<"a">>],
                     priv, E, lv, [c \in Classes |-> <<"a">>])
  /\ \E variant \in Variants : \E level \in LevelParams :
       list = Query(variant, Absent, level, <<>>, {Given(1)})

SpecLevel == InitLevel /\ [][NextList]_vars

\* A text query, first two pages of the default limit, any enrollments.
InitText ==
  /\ \E E \in SUBSET (Users \X Classes) : \E ln \in [Users -> {<<"a">>, <<"b">>}] :
     \E ins \in [Classes -> {<<"a">>, <<"b">>}] : \E priv \in Roles :
       InitListStore(ln, [u \in Users |-> <<"x">>], priv, E,
                     [c \in Classes |-> LevelOf(c)], ins)
  /\ \E variant \in Variants : \E q \in {<<"a">>, <<"B">>} :
       list = Query(variant, Absent, "", q, {Given(1), Given(2)})

SpecText == InitText /\ [][NextList]_vars

Answers == {p \in list.pages : list.resp[p] # NoResp}

Students == {u \in Users : users[u].exists /\ users[u].privilege = "student"}

Range(seq) == {seq[i] : i \in 1..Len(seq)}

\* C12: a supplied limit is clamped to [1, MaxLimit] and a supplied page to
\* >= 1, 0 and negative values becoming 1; skip is (page - 1) * limit of the
\* effective values, which the response echoes.
C12_Clamped ==
  list.asked =>
    \A p \in Answers :
      LET r == list.resp[p]
      IN /\ list.limit.given => r.limit = Max(1, Min(MaxLimit, list.limit.n))
         /\ p.given => r.page = Max(1, p.n)
         /\ r.skip = (r.page - 1) * r.limit

RECURSIVE FirstPages(_)
\* The items of pages 1..k, one page after the other
FirstPages(k) == IF k = 0 THEN <<>> ELSE FirstPages(k - 1) \o list.resp[Given(k)].items

\* C13: the pages k = 1, 2, ... of one limit over the same collection are
\* pairwise disjoint, hold every student exactly once, and one after the
\* other are in ascending order of (lastName, firstName, _id).
C13_PagesPartition ==
  (list.asked /\ \A k \in 1..MaxPage : Given(k) \in Answers) =>
    LET all == FirstPages(MaxPage)
    IN /\ Range(all) = Students
       /\ Len(all) = Cardinality(Students)
       /\ \A i, j \in 1..Len(all) : i < j =>
            \/ StrLess(users[all[i]].lastName, users[all[j]].lastName)
            \/ /\ users[all[i]].lastName = users[all[j]].lastName
               /\ StrLess(users[all[i]].firstName, users[all[j]].firstName)
            \/ /\ users[all[i]].lastName = users[all[j]].lastName
               /\ users[all[i]].firstName = users[all[j]].firstName
               /\ all[i] < all[j]

\* q occurs in the user's first name, last name or e-mail address
InName(u, q) ==
  \/ Contains(LowerCase(users[u].firstName), LowerCase(q))
  \/ Contains(LowerCase(users[u].lastName), LowerCase(q))
  \/ Contains(LowerCase(users[u].email), LowerCase(q))

\* q occurs in the instructor or the age group of a class the user is in
InClass(u, q) ==
  \E c \in Elements(users[u].enrolledClasses) :
    /\ classes[c].exists
    /\ \/ Contains(LowerCase(classes[c].instructor), LowerCase(q))
       \/ Contains(LowerCase(classes[c].ageGroup), LowerCase(q))

\* The students the text query asks for: by name or e-mail address, and by
\* their classes too where the query goes across the collections.
TextWanted(variant, q) ==
  {u \in Students : InName(u, q) \/ (variant = "server" /\ InClass(u, q))}

\* The level a filter value stands for: a number when it is written as one,
\* the string as it stands otherwise.
LevelAsStated(raw) ==
  IF raw \in {"1", "2"} THEN [tag |-> "number", n |-> IF raw = "1" THEN 1 ELSE 2, s |-> ""]
  ELSE [tag |-> "string", n |-> 0, s |-> raw]

HasLevel(u, lvl) ==
  \E c \in Elements(users[u].enrolledClasses) : classes[c].exists /\ classes[c].level = lvl

\* The mounted router lower-cases a filter value that is no number.
LevelCompared(variant, raw) ==
  IF variant = "server" /\ raw = "IELTS" THEN LevelAsStated("ielts") ELSE LevelAsStated(raw)

\* C14: the total of every answer is the number of students who satisfy
\* every filter of the query (text, level), whatever the page.
C14_TotalCountsMatches ==
  list.asked =>
    \A p \in Answers :
      list.resp[p].total =
        Cardinality({u \in Students :
                       /\ list.q # <<>> => u \in TextWanted(list.variant, list.q)
                       /\ list.level # "" =>
                            HasLevel(u, LevelCompared(list.variant, list.level))})

\* C15 as stated: with a level filter the answer lists exactly the students
\* with a class of that level, a filter value that is no number being
\* compared as the string it is.
C15_AsStated ==
  (list.asked /\ list.level # "" /\ list.q = <<>>) =>
    \A p \in Answers :
      LET want == {u \in Students : HasLevel(u, LevelAsStated(list.level))}
      IN /\ list.resp[p].status = 200
         /\ Range(list.resp[p].items) = want
         /\ Len(list.resp[p].items) = Cardinality(want)
         /\ list.resp[p].total = Cardinality(want)

\* C15: with a level filter the answer lists exactly the students with a class
\* whose level equals the filter value - as a number when the value is written
\* as one, else as a string, which the mounted router lower-cases first - and
\* total counts them; where no class has the level, items is empty and total 0.
C15_LevelFilter ==
  (list.asked /\ list.level # "" /\ list.q = <<>>) =>
    \A p \in Answers :
      LET want == {u \in Students : HasLevel(u, LevelCompared(list.variant, list.level))}
      IN /\ list.resp[p].status = 200
         /\ Range(list.resp[p].items) = want
         /\ Len(list.resp[p].items) = Cardinality(want)
         /\ list.resp[p].total = Cardinality(want)

\* A numeric filter picked one student with a class of that level and left
\* out another whose class has the same level written as a string.
C15_Witness ==
  /\ list.asked /\ list.level = "1" /\ Given(1) \in Answers
  /\ Len(list.resp[Given(1)].items) = 1
  /\ \E u \in Students : InIds(users[u].enrolledClasses,
                               {c \in Classes : classes[c].level = Sentinel("1")})
                         /\ u \notin Range(list.resp[Given(1)].items)

\* C16: with a text query and no level filter, the query across the
\* collections lists a student if and only if q occurs in the name or e-mail
\* address, or in the instructor or age group of one of the student's classes.
C16_TextQuery ==
  (list.asked /\ list.variant = "server" /\ list.q # <<>> /\ list.level = "") =>
    \A p \in Answers :
      p = Given(1) => Range(list.resp[p].items) = TextWanted("server", list.q)

\* ------------------------- POST /api/classes, /conversations, /ielts
\* The entries a schedule is made of
Slots == {[day |-> "Mon", startTime |-> "10:00", endTime |-> "11:00"],
          [day |-> "Tue", startTime |-> "10:00", endTime |-> "11:00"]}

Schedules == UNION {[1..n -> Slots] : n \in 0..MaxSchedule}

\* What the class form submits to a route
Bodies(route) ==
  {[level |-> IF route = "classes" THEN Numeric(1) ELSE Sentinel(""),
    ageGroup |-> <<"k">>, instructor |-> ins, schedule |-> sch] :
     ins \in {<<"a">>, <<"b">>}, sch \in Schedules}

\* The level the route looks for and stores
CreateLevel(route, body) ==
  IF route = "conversations" THEN Sentinel("conversation")
  ELSE IF route = "ielts" THEN Sentinel("ielts")
  ELSE body.level

\* cls.schedule.length === schedule.length &&
\*   cls.schedule.every((itemA) => schedule.some((itemB) => ...))
MatchingSchedule(clsSchedule, schedule) ==
  /\ Len(clsSchedule) = Len(schedule)
  /\ \A i \in 1..Len(clsSchedule) : \E j \in 1..Len(schedule) :
       /\ clsSchedule[i].day = schedule[j].day
       /\ clsSchedule[i].startTime = schedule[j].startTime
       /\ clsSchedule[i].endTime = schedule[j].endTime

\* Class.find({ level, ageGroup, instructor }) filtered to matchingSchedules
MatchingSchedules(route, body) ==
  {c \in Classes :
     /\ classes[c].exists
     /\ classes[c].level = CreateLevel(route, body)
     /\ classes[c].ageGroup = body.ageGroup
     /\ classes[c].instructor = body.instructor
     /\ MatchingSchedule(classes[c].schedule, body.schedule)}

\* The _ids no document was stored under yet
FreshIds == {c \in Classes : ~classes[c].exists}

Least(S) == CHOOSE x \in S : \A y \in S : x <= y

StartCreateClass(r, route, body, reuse) ==
  /\ req[r].pc = "idle" \/ (reuse /\ req[r].pc = "done")
  /\ req' = [req EXCEPT ![r] =
       [Idle EXCEPT !.op = "createClass", !.route = route, !.body = body, !.pc = "find"]]
  /\ pre' = Store
  /\ repeated' = FALSE
  /\ UNCHANGED <<users, classes, clerk, db, list, gate>>

CreateClassFind(r, f) ==
  /\ At(r, "createClass", "find")
  /\ IF f THEN Respond(r, 500, "Failed to create class")
     ELSE IF MatchingSchedules(req[r].route, req[r].body) # {}
     THEN req' = [req EXCEPT ![r] =
            [@ EXCEPT !.pc = "done", !.status = 409, !.msg = "Class already exists",
                      !.classId = Least(MatchingSchedules(req[r].route, req[r].body))]]
     ELSE Goto(r, "save")
  /\ UNCHANGED <<users, classes, clerk, pre, repeated, db, list, gate>>

\* new Class({ level, ageGroup, instructor, schedule }).save()
CreateClassSave(r, f) ==
  /\ At(r, "createClass", "save")
  /\ IF f
     THEN Respond(r, 500, "Failed to create class") /\ UNCHANGED classes
     ELSE /\ FreshIds # {}
          /\ LET id == Least(FreshIds)
             IN /\ classes' = [classes EXCEPT ![id] =
                     [NoClass EXCEPT !.exists = TRUE,
                                     !.level = CreateLevel(req[r].route, req[r].body),
                                     !.ageGroup = req[r].body.ageGroup,
                                     !.instructor = req[r].body.instructor,
                                     !.schedule = req[r].body.schedule,
                                     !.isEnrollmentOpen = TRUE]]
                /\ req' = [req EXCEPT ![r] =
                     [@ EXCEPT !.pc = "done", !.status = 201,
                               !.msg = "Class created successfully", !.classId = id]]
  /\ UNCHANGED <<users, clerk, pre, repeated, db, list, gate>>

\* No class yet, the students of InitStore; class forms sent one at a time.
InitCreate ==
  /\ users = [u \in Users |-> NewUser(u)]
  /\ classes = [c \in Classes |-> NoClass]
  /\ clerk = Users
  /\ req = [r \in Requests |-> Idle]
  /\ pre = [users |-> users, classes |-> classes, clerk |-> clerk]
  /\ repeated = FALSE
  /\ db = DbStart(TRUE)
  /\ list = NoList
  /\ gate = NoGate

NextCreate ==
  \/ \E route \in ClassRoutes : \E body \in Bodies(route) :
       StartCreateClass(1, route, body, TRUE)
  \/ CreateClassFind(1, FALSE)
  \/ CreateClassSave(1, FALSE)

SpecCreate == InitCreate /\ [][NextCreate]_vars

Created == {c \in Classes : classes[c].exists /\ ~pre.classes[c].exists}

\* The entries of a schedule, as a set
Entries(sch) == {[day |-> sch[i].day, startTime |-> sch[i].startTime,
                  endTime |-> sch[i].endTime] : i \in 1..Len(sch)}

\* The classes there were when the form arrived that have the level, age
\* group and instructor submitted and the same set of schedule entries
Duplicates(r) ==
  {c \in Classes :
     /\ pre.classes[c].exists
     /\ pre.classes[c].level = (IF req[r].route = "classes" THEN req[r].body.level
                                ELSE IF req[r].route = "ielts" THEN Sentinel("ielts")
                                ELSE Sentinel("conversation"))
     /\ pre.classes[c].ageGroup = req[r].body.ageGroup
     /\ pre.classes[c].instructor = req[r].body.instructor
     /\ Entries(pre.classes[c].schedule) = Entries(req[r].body.schedule)}

\* C17: a class form is answered with a conflict (409) naming an existing
\* class if and only if a class with the same level, age group and instructor
\* has the same set of schedule entries; on a conflict no class is created,
\* otherwise exactly one is.
C17_ConflictIffDuplicate ==
  \A r \in Requests :
    (req[r].op = "createClass" /\ req[r].pc = "done") =>
      /\ req[r].status = 409 <=> Duplicates(r) # {}
      /\ req[r].status = 409 => req[r].classId \in Duplicates(r) /\ Created = {}
      /\ req[r].status # 409 => Cardinality(Created) = 1 /\ req[r].status = 201

\* ------------------------------------- middleware/auth.js, allowSelfOrPriv
\* The identity of an account that has no document in users
Ghost == NumUsers + 1

\* User.findOne({ clerkId }): the document, or null
FindOneByClerkId(clerkId) ==
  IF \E u \in Users : users[u].exists /\ users[u].clerkId = clerkId
  THEN users[CHOOSE u \in Users : users[u].exists /\ users[u].clerkId = clerkId]
  ELSE NoUser

ForbiddenNever(me) == FALSE

ForbiddenIfStudent(me) == me.exists /\ me.privilege \notin {"admin", "instructor"}

\* !me || !['admin', 'instructor'].includes(me.privilege)
Forbidden(me) == ~me.exists \/ me.privilege \notin {"admin", "instructor"}

IsAnyone(u) == u.exists

\* isAdminOrInstructor = (u) => !!u && ["admin", "instructor"].includes(u.privilege)
IsAdminOrInstructor(u) == u.exists /\ u.privilege \in {"admin", "instructor"}

Middlewares == {"requireAdminOrInstructor", "allowSelfOrPriv"}

\* A request reaches a route guarded by requireAuth and mw.  secret: the
\* process has CLERK_SECRET_KEY; session: the identity of the signed-in
\* account, which only a process that has the key can verify.
StartGate(mw, secret, session, paramId) ==
  /\ gate.pc = "idle"
  /\ ~secret => session = Null
  /\ gate' = [pc |-> "requireAuth", mw |-> mw, secret |-> secret, session |-> session,
              userId |-> Null, paramId |-> paramId, status |-> 0, msg |-> "",
              ran |-> FALSE, failed |-> FALSE]
  /\ UNCHANGED <<users, classes, clerk, req, pre, repeated, db, list>>

Deny(status, msg) == gate' = [gate EXCEPT !.pc = "done", !.status = status, !.msg = msg]

\* next(): the guarded handler runs
Proceed == gate' = [gate EXCEPT !.pc = "done", !.ran = TRUE]

\* requireAuth: Clerk's guard, or 503 where the key is missing
RequireAuth ==
  /\ gate.pc = "requireAuth"
  /\ IF ~gate.secret THEN Deny(503, "Auth disabled: missing CLERK_SECRET_KEY")
     ELSE IF gate.session = Null THEN Deny(401, "Unauthenticated")
     ELSE gate' = [gate EXCEPT !.pc = gate.mw, !.userId = gate.session]
  /\ UNCHANGED <<users, classes, clerk, req, pre, repeated, db, list>>

RequireAdminOrInstructor(f) ==
  /\ gate.pc = "requireAdminOrInstructor"
  /\ IF ~gate.secret THEN Deny(503, "Auth disabled: missing CLERK_SECRET_KEY")
     ELSE IF gate.userId = Null THEN Deny(401, "Unauthorized")
     ELSE IF f THEN gate' = [gate EXCEPT !.pc = "done", !.status = 500,
                                         !.msg = "Auth check failed", !.failed = TRUE]
     ELSE IF Forbidden(FindOneByClerkId(gate.userId)) THEN Deny(403, "Forbidden")
     ELSE Proceed
  /\ UNCHANGED <<users, classes, clerk, req, pre, repeated, db, list>>

\* allowSelfOrPriv up to its second await: getMe, the role, the :id
AllowSelfOrPrivMe(f) ==
  /\ gate.pc = "allowSelfOrPriv"
  /\ IF f /\ gate.userId # Null
     THEN gate' = [gate EXCEPT !.pc = "done", !.status = 500,
                               !.msg = "Auth check failed", !.failed = TRUE]
     ELSE IF gate.userId # Null /\ IsAdminOrInstructor(FindOneByClerkId(gate.userId))
     THEN Proceed
     ELSE IF gate.paramId = BadId THEN Deny(400, "Invalid ID")
     ELSE gate' = [gate EXCEPT !.pc = "findTarget"]
  /\ UNCHANGED <<users, classes, clerk, req, pre, repeated, db, list>>

\* allowSelfOrPriv from User.findById(paramId) on
AllowSelfOrPrivTarget(f) ==
  /\ gate.pc = "findTarget"
  /\ IF f THEN gate' = [gate EXCEPT !.pc = "done", !.status = 500,
                                    !.msg = "Auth check failed", !.failed = TRUE]
     ELSE IF ~users[gate.paramId].exists THEN Deny(404, "User not found")
     ELSE IF users[gate.paramId].clerkId = gate.userId THEN Proceed
     ELSE Deny(403, "Forbidden")
  /\ UNCHANGED <<users, classes, clerk, req, pre, repeated, db, list>>

\* Users of any role, the last of them deleted or not; one guarded request,
\* whose lookups may fail.
InitGate ==
  /\ \E priv \in [Users -> {"student", "instructor", "admin"}] :
     \E gone \in SUBSET {NumUsers} :
       users = [u \in Users |->
                  IF u \in gone THEN NoUser ELSE [NewUser(u) EXCEPT !.privilege = priv[u]]]
  /\ classes = [c \in Classes |-> NewClass(c)]
  /\ clerk = Users
  /\ req = [r \in Requests |-> Idle]
  /\ pre = [users |-> users, classes |-> classes, clerk |-> clerk]
  /\ repeated = FALSE
  /\ db = DbStart(TRUE)
  /\ list = NoList
  /\ gate = NoGate

NextGate ==
  \/ \E mw \in Middlewares : \E secret \in BOOLEAN :
     \E session \in Users \cup {Ghost, Null} : \E paramId \in Users \cup {BadId} :
       StartGate(mw, secret, session, paramId)
  \/ RequireAuth
  \/ \E f \in BOOLEAN :
       \/ RequireAdminOrInstructor(f)
       \/ AllowSelfOrPrivMe(f)
       \/ AllowSelfOrPrivTarget(f)

SpecGate == InitGate /\ [][NextGate]_vars

\* The middleware mw has answered or called next(), no lookup having failed
Decided(mw) == gate.pc = "done" /\ gate.mw = mw /\ gate.userId # Null /\ ~gate.failed

\* The roles of the users whose identity is that of the requester
RolesOf(session) ==
  {users[u].privilege : u \in {v \in Users : users[v].exists /\ users[v].clerkId = session}}

\* C18: requireAdminOrInstructor lets the request through if and only if the
\* requester's identity is that of a user whose role is admin or instructor;
\* a student is answered 403 and the handler does not run.
C18_OnlyStaffPass ==
  Decided("requireAdminOrInstructor") =>
    /\ gate.ran <=> RolesOf(gate.session) \cap {"admin", "instructor"} # {}
    /\ RolesOf(gate.session) = {"student"} => gate.status = 403 /\ ~gate.ran

\* A student was answered 403 and the handler did not run.
C18_Witness ==
  /\ Decided("requireAdminOrInstructor")
  /\ RolesOf(gate.session) = {"student"}
  /\ gate.status = 403 /\ ~gate.ran

\* C19 as stated: an identity that matches no user is refused a privileged
\* operation with 401, not 403.
C19_AsStated ==
  (Decided("requireAdminOrInstructor") /\ RolesOf(gate.session) = {}) =>
    gate.status = 401 /\ ~gate.ran

\* C19: an identity that matches no user is refused a privileged operation
\* with 403 "Forbidden", as a student is, and the handler does not run; 401
\* answers only a request that carries no verified identity.
C19_UnprovisionedForbidden ==
  /\ (Decided("requireAdminOrInstructor") /\ RolesOf(gate.session) = {}) =>
       gate.status = 403 /\ gate.msg = "Forbidden" /\ ~gate.ran
  /\ (gate.pc = "done" /\ gate.status = 401) => gate.session = Null /\ ~gate.ran

\* An account with no user document was answered 403.
C19_Witness ==
  /\ Decided("requireAdminOrInstructor")
  /\ gate.session = Ghost
  /\ gate.status = 403

\* C20: allowSelfOrPriv lets the request on user :id through if and only if
\* the requester is admin or instructor, or :id is a user whose identity is
\* the requester's; another requester is answered 404 if :id is no user and
\* 403 if it is someone else, and the handler runs in neither case.
C20_SelfOrStaffPass ==
  Decided("allowSelfOrPriv") =>
    LET staff == RolesOf(gate.session) \cap {"admin", "instructor"} # {}
        target == gate.paramId
        found == target \in Users /\ users[target].exists
    IN /\ gate.ran <=> (staff \/ (found /\ users[target].clerkId = gate.session))
       /\ (~staff /\ target \in Users /\ ~found) => gate.status = 404 /\ ~gate.ran
       /\ (~staff /\ found /\ users[target].clerkId # gate.session) =>
            gate.status = 403 /\ ~gate.ran

\* A student asked for a user that does not exist and was answered 404.
C20_Witness ==
  /\ Decided("allowSelfOrPriv")
  /\ RolesOf(gate.session) = {"student"}
  /\ gate.paramId \in Users /\ ~users[gate.paramId].exists
  /\ gate.status = 404 /\ ~gate.ran

\* ------------------------------------------- who may reach a handler
\* The middleware between a route's path and its handler, in order
Chain(op) ==
  IF op \in {"deleteUser", "listStudents"} THEN <<"requireAuth", "requireAdminOrInstructor">>
  ELSE IF op = "putUser" THEN <<"requireAuth", "allowSelfOrPriv">>
  ELSE IF op = "getUser" THEN <<"requireAuth">>
  ELSE <<>>

\* A request by the account `session` (Null: not signed in) on a route that
\* has no middleware: its handler runs whoever asks.
Unguarded(op, session) ==
  /\ Chain(op) = <<>>
  /\ gate.pc = "idle"
  /\ gate' = [pc |-> "done", mw |-> "none", secret |-> TRUE, session |-> session,
              userId |-> Null, paramId |-> BadId, status |-> 0, msg |-> "",
              ran |-> TRUE, failed |-> FALSE]

\* Users of any role, any enrollments, every class open.
InitRoles ==
  /\ \E E \in SUBSET (Users \X Classes) :
     \E priv \in [Users -> {"student", "instructor", "admin"}] :
       /\ users = [u \in Users |->
            [NewUser(u) EXCEPT
               !.privilege = priv[u],
               !.enrolledClasses = [c \in Classes |-> IF <<u, c>> \in E THEN 1 ELSE 0]]]
       /\ classes = [c \in Classes |->
            [NewClass(c) EXCEPT
               !.roster = [u \in Users |-> IF <<u, c>> \in E THEN 1 ELSE 0]]]
  /\ clerk = Users
  /\ req = [r \in Requests |-> Idle]
  /\ pre = [users |-> users, classes |-> classes, clerk |-> clerk]
  /\ repeated = FALSE
  /\ db = DbStart(TRUE)
  /\ list = NoList
  /\ gate = NoGate

\* DELETE /api/classes/classes/:id and the two track routes, by anyone
RequestDeleteClass(session, route, id) ==
  /\ Unguarded("deleteClass", session)
  /\ StartDeleteClass(1, route, id, FALSE, TRUE)
  /\ UNCHANGED <<db, list>>

NextDeleteClass ==
  \/ \E session \in Users \cup {Ghost, Null} : \E route \in ClassRoutes :
     \E id \in Classes \cup {BadId} :
       RequestDeleteClass(session, route, id)
  \/ (\/ DeleteClassFind(1, FALSE)
      \/ DeleteClassCascade(1, FALSE)
      \/ DeleteClassDoc(1, FALSE)) /\ UNCHANGED others

SpecDeleteClass == InitRoles /\ [][NextDeleteClass]_vars

\* C21: DELETE /classes/:id by a requester who is neither admin nor
\* instructor (a student, an account without a user, no account) leaves
\* every class and every enrolledClasses as it was.
C21_DeleteClassStaffOnly ==
  (/\ req[1].op = "deleteClass" /\ req[1].route = "classes"
   /\ gate.pc = "done"
   /\ RolesOf(gate.session) \cap {"admin", "instructor"} = {}) =>
    /\ classes = pre.classes
    /\ users = pre.users

\* ------------------------------------------ DELETE /user/:id, step by step
\* Any enrollments; the last user may have been deleted already.
InitDeleteUser ==
  /\ \E gone \in SUBSET {NumUsers} : \E E \in SUBSET ((Users \ gone) \X Classes) :
       /\ users = [u \in Users |->
            IF u \in gone THEN NoUser
            ELSE [NewUser(u) EXCEPT
                    !.enrolledClasses = [c \in Classes |-> IF <<u, c>> \in E THEN 1 ELSE 0]]]
       /\ classes = [c \in Classes |->
            [NewClass(c) EXCEPT
               !.roster = [u \in Users |-> IF <<u, c>> \in E THEN 1 ELSE 0]]]
       /\ clerk = Users \ gone
  /\ req = [r \in Requests |-> Idle]
  /\ pre = [users |-> users, classes |-> classes, clerk |-> clerk]
  /\ repeated = FALSE
  /\ db = DbStart(TRUE)
  /\ list = NoList
  /\ gate = NoGate

NextDeleteUser ==
  /\ \/ \E id \in Users \cup {BadId} : StartDeleteUser(1, id, FALSE, TRUE)
     \/ \E f \in BOOLEAN :
          \/ DeleteUserFind(1, f)
          \/ DeleteUserCascade(1, f)
          \/ DeleteUserClerk(1, f)
          \/ DeleteUserDoc(1, f)
  /\ UNCHANGED others

SpecDeleteUser == InitDeleteUser /\ [][NextDeleteUser]_vars

\* The store holds no roster naming user id
OffEveryRoster(id) == \A c \in Classes : ~Includes(classes[c].roster, id)

\* C22: DELETE /user/:id removes the user from the rosters first, deletes
\* the identity-provider account only once every roster removal has
\* succeeded, and deletes the User document only once the account is
\* deleted; an id that names no user is answered 404 with nothing done.
C22_DeleteUserOrder ==
  /\ [](Answered(1, "deleteUser") /\ req[1].status = 404 =>
          Unchanged /\ clerk = pre.clerk)
  /\ [][/\ classes' # classes => (clerk = pre.clerk /\ users = pre.users)
        /\ clerk' # clerk =>
             /\ OffEveryRoster(req[1].id)
             /\ req[1].pending = {} /\ ~req[1].failed
             /\ users = pre.users
        /\ users' # users => req[1].id \notin clerk /\ OffEveryRoster(req[1].id)]_vars

C22_Witness ==
  /\ Answered(1, "deleteUser") /\ req[1].status = 204
  /\ Elements(pre.users[req[1].id].enrolledClasses) # {}
  /\ ~users[req[1].id].exists /\ req[1].id \notin clerk

\* ------------------------------------------------------------ GET /user
\* validateInput(input, allowedFields): the allowed fields the input has.
\* An object is a function from its keys.
ValidateInput(input, allowedFields) ==
  [k \in DOMAIN input \cap allowedFields |-> input[k]]

\* The value a stored user has for a filter's key
FieldOf(u, k) == IF k = "_id" THEN u ELSE users[u][k]

\* User.findOne(filters): no document (Null), or the first that has every
\* value of the filter
Matching(filters) ==
  {u \in Users : users[u].exists /\ \A k \in DOMAIN filters : FieldOf(u, k) = filters[k]}

FindOne(filters) == IF Matching(filters) = {} THEN Null ELSE Least(Matching(filters))

\* The phone number on every profile
Phone == <<"7">>

\* req.query of GET /user: any of _id, email, whatsapp, and a field that
\* is not a filter
Queries ==
  {[k \in K |-> all[k]] :
     K \in SUBSET {"_id", "email", "whatsapp", "clerkId"},
     all \in [_id : Users \cup {Ghost, BadId}, email : {EmailOf(u) : u \in Users},
              whatsapp : {Phone}, clerkId : Users]}

\* The route's last middleware has called next()
ReachHandler ==
  /\ gate.pc = "handler"
  /\ Proceed
  /\ UNCHANGED <<users, classes, clerk, req, pre, repeated, db, list>>

StartGetUser(r, query) ==
  /\ gate.pc = "done" /\ gate.ran /\ gate.mw = "handler"
  /\ req[r].pc = "idle"
  /\ req' = [req EXCEPT ![r] =
       [Idle EXCEPT !.op = "getUser", !.pc = "getMe"]
         @@ [query |-> query, filters |-> ValidateInput(query, {"_id", "email", "whatsapp"}),
             isPriv |-> FALSE, sent |-> Null]]
  /\ pre' = Store
  /\ repeated' = FALSE
  /\ UNCHANGED <<users, classes, clerk, db, list, gate>>

\* const me = await getMe(req); const isPriv = isAdminOrInstructor(me)
GetUserMe(r, f) ==
  /\ At(r, "getUser", "getMe")
  /\ IF f THEN Respond(r, 500, "")
     ELSE req' = [req EXCEPT ![r] =
            [@ EXCEPT !.pc = "findOne",
                      !.isPriv = IsAdminOrInstructor(FindOneByClerkId(gate.userId))]]
  /\ UNCHANGED <<users, classes, clerk, pre, repeated, db, list, gate>>

\* user = await User.findOne(...).lean(), and the answer
GetUserFind(r, f) ==
  /\ At(r, "getUser", "findOne")
  /\ LET q == req[r]
         byFilter == q.isPriv /\ DOMAIN q.filters # {}
         castError == byFilter /\ "_id" \in DOMAIN q.filters /\ q.filters["_id"] = BadId
         user == IF byFilter THEN FindOne(q.filters)
                 ELSE FindOne([k \in {"clerkId"} |-> gate.userId]) IN
       IF f \/ castError THEN Respond(r, 500, "")
       ELSE IF user = Null THEN Respond(r, 404, "User not found")
       ELSE req' = [req EXCEPT ![r] = [@ EXCEPT !.pc = "done", !.status = 200, !.sent = user]]
  /\ UNCHANGED <<users, classes, clerk, pre, repeated, db, list, gate>>

\* Users of any role, each with a phone number, the last of them deleted
\* or not.
InitGetUser ==
  /\ \E priv \in [Users -> {"student", "instructor", "admin"}] :
     \E gone \in SUBSET {NumUsers} :
       users = [u \in Users |->
                  IF u \in gone THEN NoUser
                  ELSE [NewUser(u) EXCEPT !.privilege = priv[u]] @@ [whatsapp |-> Phone]]
  /\ classes = [c \in Classes |-> NewClass(c)]
  /\ clerk = Users
  /\ req = [r \in Requests |-> Idle]
  /\ pre = [users |-> users, classes |-> classes, clerk |-> clerk]
  /\ repeated = FALSE
  /\ db = DbStart(TRUE)
  /\ list = NoList
  /\ gate = NoGate

NextGetUser ==
  \/ \E session \in Users \cup {Ghost, Null} : StartGate("handler", TRUE, session, BadId)
  \/ RequireAuth
  \/ ReachHandler
  \/ \E query \in Queries : StartGetUser(1, query)
  \/ \E f \in BOOLEAN : GetUserMe(1, f)
  \/ \E f \in BOOLEAN : GetUserFind(1, f)

SpecGetUser == InitGetUser /\ [][NextGetUser]_vars

\* C23: GET /user answers a requester who is neither admin nor instructor
\* with their own profile whatever filter the query has, and an admin or
\* instructor who supplies a filter with a user that has every value of it.
C23_SelfOrPrivileged ==
  (/\ req[1].op = "getUser" /\ req[1].pc = "done" /\ req[1].status = 200) =>
    LET q == req[1].query
        sent == req[1].sent
        asked == DOMAIN q \cap {"_id", "email", "whatsapp"} IN
      /\ sent \in Users /\ users[sent].exists
      /\ RolesOf(gate.session) \cap {"admin", "instructor"} = {} =>
           users[sent].clerkId = gate.session
      /\ (RolesOf(gate.session) \cap {"admin", "instructor"} # {} /\ asked # {}) =>
           /\ "_id" \in asked => sent = q["_id"]
           /\ "email" \in asked => users[sent].email = q["email"]
           /\ "whatsapp" \in asked => users[sent].whatsapp = q["whatsapp"]

\* A student asked for another user by _id and was sent their own profile
C23_Witness ==
  /\ req[1].op = "getUser" /\ req[1].pc = "done" /\ req[1].status = 200
  /\ RolesOf(gate.session) = {"student"}
  /\ "_id" \in DOMAIN req[1].query
  /\ req[1].query["_id"] \in Users \ {gate.session}
  /\ users[req[1].query["_id"]].exists
  /\ req[1].sent = gate.session

\* ------------------------------------------- the search pattern of ?q=
MaxQuery == 2

\* Letters of both cases, the space, and characters a pattern gives a
\* meaning to
Chars == {"a", "A", " ", "-", ".", "*", "\\"}

Strings == UNION {[1..n -> Chars] : n \in 0..MaxQuery}

\* A query q and a field value v, not yet compared
InitSearch ==
  /\ \E q \in Strings : \E v \in Strings : list = [asked |-> FALSE, q |-> q, v |-> v]
  /\ users = [u \in Users |-> NewUser(u)]
  /\ classes = [c \in Classes |-> NewClass(c)]
  /\ clerk = Users
  /\ req = [r \in Requests |-> Idle]
  /\ pre = [users |-> users, classes |-> classes, clerk |-> clerk]
  /\ repeated = FALSE
  /\ db = DbStart(TRUE)
  /\ gate = NoGate

\* What the route's text search makes of the value: no pattern for a q
\* that trims to nothing, else whether new RegExp(escaped, "i") can be
\* built and finds a match in v
Searched(source) ==
  LET rx == Compile(source) IN
    [list EXCEPT !.asked = TRUE] @@
      [error |-> Trim(list.q) # <<>> /\ ~rx.ok,
       matched |-> Trim(list.q) = <<>> \/ (rx.ok /\ Test(rx, list.v))]

\* if (typeof q === "string" && q.trim()) rx = new RegExp(escapeRx(q.trim()), "i")
SearchServer ==
  /\ ~list.asked
  /\ list' = Searched(EscapeRx(Trim(list.q))) @@ [variant |-> "server"]
  /\ UNCHANGED <<users, classes, clerk, req, pre, repeated, db, gate>>

\* q = req.query.q.trim(); if (q) rx = new RegExp(escape(q), "i")
SearchApi ==
  /\ ~list.asked
  /\ list' = Searched(Escape(Trim(list.q))) @@ [variant |-> "api"]
  /\ UNCHANGED <<users, classes, clerk, req, pre, repeated, db, gate>>

NextSearch == SearchServer \/ SearchApi

SpecSearch == InitSearch /\ [][NextSearch]_vars

\* C24: a field value v matches the search query q exactly when q, trimmed,
\* occurs in v letter case aside, whatever characters q has: "." and "*"
\* and the backslash stand for themselves, and no q makes the search fail.
C24_LiteralSubstring ==
  list.asked =>
    /\ ~list.error
    /\ list.matched <=> Contains(LowerCase(list.v), LowerCase(Trim(list.q)))

\* The value "A." was found by the query "a."
C24_Witness ==
  /\ list.asked /\ list.variant = "server"
  /\ list.q = <<"a", ".">> /\ list.v = <<"A", ".">>
  /\ list.matched

\* C25: Enroll and Unenroll write the user's side before the class's side;
\* an Enroll whose second write failed after its first succeeded is
\* answered 500 and leaves exactly one one-sided edge, the class in the
\* user's enrolledClasses and the user not on the roster, every other user
\* and every class being as before.
C25_UserSideFirst ==
  (req[1].op \in {"enroll", "unenroll"} /\ req[1].id # BadId) =>
    LET id == req[1].id
        classId == req[1].classId IN
      /\ classes # pre.classes => users # pre.users
      /\ (req[1].op = "enroll" /\ req[1].pc = "done" /\ users # pre.users
            /\ ~Includes(classes[classId].roster, id)) =>
           /\ req[1].status = 500
           /\ Includes(users[id].enrolledClasses, classId)
           /\ \A c \in Classes \ {classId} :
                users[id].enrolledClasses[c] = pre.users[id].enrolledClasses[c]
           /\ \A u \in Users \ {id} : users[u] = pre.users[u]
           /\ classes = pre.classes /\ clerk = pre.clerk

C25_Witness ==
  /\ req[1].op = "enroll" /\ req[1].pc = "done" /\ req[1].status = 500
  /\ users # pre.users /\ classes = pre.classes
  /\ Includes(users[req[1].id].enrolledClasses, req[1].classId)
  /\ ~Includes(classes[req[1].classId].roster, req[1].id)

\* ------------------------------------- DELETE /classes/:id, tried again
\* The client sends the same request again once the first was answered 500
RetryDeleteClass ==
  /\ req[1].op = "deleteClass" /\ req[1].status = 500
  /\ StartDeleteClass(2, req[1].route, req[1].id, FALSE, FALSE)

\* A first attempt any call of which may fail, then a second none of whose
\* calls fails; removals of the first that are still under way settle
\* whenever they do.
NextRetry ==
  /\ \/ \E id \in Classes : StartDeleteClass(1, "classes", id, FALSE, TRUE)
     \/ \E f \in BOOLEAN :
          \/ DeleteClassFind(1, f)
          \/ DeleteClassCascade(1, f)
          \/ DeleteClassDoc(1, f)
     \/ RetryDeleteClass
     \/ DeleteClassFind(2, FALSE)
     \/ DeleteClassCascade(2, FALSE)
     \/ DeleteClassDoc(2, FALSE)
  /\ UNCHANGED others

SpecRetry == Init /\ [][NextRetry]_vars

\* C26: a DELETE /classes/:id sent again after an attempt that failed, and
\* none of whose calls fails, ends with the Class deleted and its id in no
\* user's enrolledClasses, every other membership as it was before the
\* first attempt.
C26_RetryCompletes ==
  (req[2].op = "deleteClass" /\ req[2].pc = "done") =>
    LET id == req[2].id IN
      /\ req[2].status = 204
      /\ ~classes[id].exists
      /\ \A u \in Users : ~Includes(users[u].enrolledClasses, id)
      /\ \A u \in Users : \A c \in Classes \ {id} :
           users[u].enrolledClasses[c] = pre.users[u].enrolledClasses[c]
      /\ \A u \in Users : users[u].exists = pre.users[u].exists
      /\ \A c \in Classes \ {id} : classes[c] = pre.classes[c]

\* The first attempt removed the class from one student and failed for
\* another; the second finished the deletion
C26_Witness ==
  /\ req[2].op = "deleteClass" /\ req[2].pc = "done" /\ req[2].status = 204
  /\ req[1].pc = "done" /\ req[1].failed
  /\ Cardinality(Elements(pre.classes[req[2].id].roster)) >= 2

\* The request on slot r is in its cascade, removals still to settle
InCascade(r) ==
  req[r].op \in {"deleteUser", "deleteClass"} /\ req[r].pc \in {"cascade", "drain"}

\* C27: the cascade of a user's or a class's deletion issues a removal for
\* every class of enrolledClasses, or every user of the roster, and each of
\* them settles, one at a time, whether or not another has failed: the
\* cascade ends only with the last of them.
C27_EveryRemovalAttempted ==
  [][/\ (req[1].op = "deleteUser" /\ ~InCascade(1) /\ InCascade(1)') =>
          req'[1].pending = Elements(users[req[1].id].enrolledClasses)
     /\ (req[1].op = "deleteClass" /\ ~InCascade(1) /\ InCascade(1)') =>
          req'[1].pending = Elements(classes[req[1].id].roster)
     /\ InCascade(1) =>
          /\ req[1].pending # {}
          /\ \E t \in req[1].pending : req'[1].pending = req[1].pending \ {t}
          /\ ~InCascade(1)' => req'[1].pending = {}]_vars

\* One removal of a class deletion failed and another, of the same
\* deletion, took the class out of a student's enrolledClasses
C27_Witness ==
  /\ Answered(1, "deleteClass") /\ req[1].failed /\ req[1].status = 500
  /\ \E u \in Elements(pre.classes[req[1].id].roster) :
       ~Includes(users[u].enrolledClasses, req[1].id)

\* The attempts the driver gave up
Failed == {a \in Attempts : db.attempt[a] \in {"failed", "rejected"}}

\* C28: a connection attempt that failed is never cached nor returned as a
\* connection, every caller awaiting it is thrown the error, it stops being
\* the memoized promise once its rejection is handled, and with no attempt
\* memoized the next dbConnect() starts exactly one new attempt.
C28_FailedAttemptCleared ==
  /\ [](/\ db.conn \notin Failed
        /\ \A k \in Callers : db.caller[k].pc = "returned" => db.caller[k].got \notin Failed
        /\ \A a \in Attempts : db.attempt[a] = "rejected" => db.promise # a)
  /\ [][/\ \A k \in Callers :
             (db.caller[k].pc = "await" /\ db.caller[k].on \in Failed) =>
               \/ db'.caller[k] = db.caller[k]
               \/ db'.caller[k].pc = "threw" /\ db.attempt[db.caller[k].on] = "rejected"
        /\ \A k \in Callers :
             (/\ db.uri /\ db.conn = Null /\ db.promise = Null /\ Failed # {}
              /\ db.caller[k].pc # "await" /\ db'.caller[k].pc = "await") =>
               /\ db'.promise \notin Failed \cup {Null}
               /\ db'.caller[k].on = db'.promise
               /\ {a \in Attempts : db'.attempt[a] = "pending"} = {db'.promise}]_vars

\* Two callers awaited one attempt and were both thrown its error; a later
\* call has a new attempt under way
C28_Witness ==
  \E k1, k2, k3 \in Callers : \E a, b \in Attempts :
    /\ k1 # k2 /\ a # b
    /\ db.uri /\ db.attempt[a] = "rejected"
    /\ db.caller[k1].pc = "threw" /\ db.caller[k2].pc = "threw"
    /\ db.caller[k3].pc = "await" /\ db.caller[k3].on = b
    /\ db.promise = b /\ db.attempt[b] = "pending"

\* ------------------------------------------------ POST /sign-up, PUT /user/:id
\* The user ids no document has
FreshUsers == {u \in Users : ~users[u].exists}

\* req.body of POST /sign-up: any of the form's fields, and a privilege
SignUpBodies ==
  {[k \in K |-> all[k]] :
     K \in SUBSET {"firstName", "lastName", "email", "clerkId", "privilege"},
     all \in [firstName : {<<"a">>}, lastName : {<<"a">>},
              email : {EmailOf(u) : u \in Users}, clerkId : {Ghost},
              privilege : {"admin"}]}

\* POST /api/sign-up up to its first await
StartSignUp(r, session, body) ==
  /\ Unguarded("signUp", session)
  /\ req[r].pc = "idle"
  /\ FreshUsers # {}
  /\ req' = [req EXCEPT ![r] =
       IF {"firstName", "lastName", "email", "clerkId"} \subseteq DOMAIN body
       THEN [Idle EXCEPT !.op = "signUp", !.body = body, !.pc = "findOne"]
       ELSE [Idle EXCEPT !.op = "signUp", !.body = body, !.pc = "done",
                         !.status = 400, !.msg = "Missing required fields"]]
  /\ pre' = Store
  /\ repeated' = FALSE
  /\ UNCHANGED <<users, classes, clerk, db, list>>

\* const existingUser = await User.findOne({ email })
SignUpFind(r, f) ==
  /\ At(r, "signUp", "findOne")
  /\ IF f THEN Respond(r, 500, "Failed to sign up")
     ELSE IF \E u \in Users : users[u].exists /\ users[u].email = req[r].body.email
     THEN Respond(r, 409, "Email already exists")
     ELSE Goto(r, "save")
  /\ UNCHANGED <<users, classes, clerk, pre, repeated>>

\* await new User({ firstName, lastName, email, whatsapp, clerkId }).save():
\* the fields left out take the schema's defaults
SignUpSave(r, f) ==
  /\ At(r, "signUp", "save")
  /\ IF f \/ FreshUsers = {}
     THEN Respond(r, 500, "Failed to sign up") /\ UNCHANGED users
     ELSE /\ req' = [req EXCEPT ![r] =
               [@ EXCEPT !.pc = "done", !.status = 201, !.id = Least(FreshUsers)]]
          /\ users' = [users EXCEPT ![Least(FreshUsers)] =
               [exists |-> TRUE, firstName |-> req[r].body.firstName,
                lastName |-> req[r].body.lastName, email |-> req[r].body.email,
                privilege |-> "student", clerkId |-> req[r].body.clerkId,
                enrolledClasses |-> EmptyArray(Classes)]]
  /\ UNCHANGED <<classes, clerk, pre, repeated>>

\* req.body of PUT /user/:id: any of these fields of the schema
PutUserBodies ==
  {[k \in K |-> all[k]] :
     K \in SUBSET {"firstName", "email", "privilege", "enrolledClasses"},
     all \in [firstName : {<<"b">>}, email : {EmailOf(u) : u \in Users},
              privilege : {"admin", "root"},
              enrolledClasses : {EmptyArray(Classes), AddToSet(EmptyArray(Classes), 1)}]}

\* PUT /api/user/:id, once requireAuth and allowSelfOrPriv have let it through
StartPutUser(r, body) ==
  /\ gate.pc = "done" /\ gate.ran /\ gate.mw = "allowSelfOrPriv"
  /\ req[r].pc = "idle"
  /\ req' = [req EXCEPT ![r] =
       IF gate.paramId = BadId
       THEN [Idle EXCEPT !.op = "putUser", !.body = body, !.pc = "done",
                         !.status = 400, !.msg = "Invalid ID"]
       ELSE [Idle EXCEPT !.op = "putUser", !.id = gate.paramId, !.body = body,
                         !.pc = "findById"]]
  /\ pre' = Store
  /\ repeated' = FALSE
  /\ UNCHANGED <<users, classes, clerk, db, list, gate>>

\* const originalUser = await User.findById(id)
PutUserFind(r, f) ==
  /\ At(r, "putUser", "findById")
  /\ LET originalUser == users[req[r].id]
         updates == req[r].body IN
       IF f THEN Respond(r, 500, "Failed to update user")
       ELSE IF ~originalUser.exists THEN Respond(r, 404, "User not found")
       ELSE IF "email" \in DOMAIN updates /\ originalUser.email # updates.email
       THEN Goto(r, "clerk")
       ELSE Goto(r, "update")
  /\ UNCHANGED <<users, classes, clerk, pre, repeated>>

\* The three calls that move the account's address at the identity
\* provider, which keeps accounts; their addresses are not modelled
PutUserClerk(r, f) ==
  /\ At(r, "putUser", "clerk")
  /\ IF f \/ users[req[r].id].clerkId \notin clerk
     THEN Respond(r, 500, "Failed to update user")
     ELSE Goto(r, "update")
  /\ UNCHANGED <<users, classes, clerk, pre, repeated>>

\* runValidators: the enum of privilege; the unique index of email
Rejected(id, updates) ==
  \/ "privilege" \in DOMAIN updates /\ updates.privilege \notin {"admin", "instructor", "student"}
  \/ /\ "email" \in DOMAIN updates
     /\ \E u \in Users \ {id} : users[u].exists /\ users[u].email = updates.email

\* { $set: updates } on a document
Assign(doc, updates) ==
  [k \in DOMAIN doc |-> IF k \in DOMAIN updates THEN updates[k] ELSE doc[k]]

\* await User.findByIdAndUpdate(id, updates, { new: true, runValidators: true })
PutUserUpdate(r, f) ==
  /\ At(r, "putUser", "update")
  /\ IF f \/ Rejected(req[r].id, req[r].body)
     THEN Respond(r, 500, "Failed to update user") /\ UNCHANGED users
     ELSE /\ Respond(r, 200, "")
          /\ users' = [users EXCEPT ![req[r].id] =
               IF @.exists THEN Assign(@, req[r].body) ELSE @]
  /\ UNCHANGED <<classes, clerk, pre, repeated>>

\* Students and admins, any enrollments, the last user deleted or not
InitAccounts ==
  /\ \E priv \in [Users -> {"student", "admin"}] :
     \E gone \in SUBSET {NumUsers} : \E E \in SUBSET ((Users \ gone) \X Classes) :
       /\ users = [u \in Users |->
            IF u \in gone THEN NoUser
            ELSE [NewUser(u) EXCEPT
                    !.privilege = priv[u],
                    !.enrolledClasses = [c \in Classes |-> IF <<u, c>> \in E THEN 1 ELSE 0]]]
       /\ classes = [c \in Classes |->
            [NewClass(c) EXCEPT
               !.roster = [u \in Users |-> IF <<u, c>> \in E THEN 1 ELSE 0]]]
  /\ clerk = Users
  /\ req = [r \in Requests |-> Idle]
  /\ pre = [users |-> users, classes |-> classes, clerk |-> clerk]
  /\ repeated = FALSE
  /\ db = DbStart(TRUE)
  /\ list = NoList
  /\ gate = NoGate

\* One request, to sign up or to update a user, by anyone; any call of
\* its handler may fail.
NextAccounts ==
  \/ \E session \in Users \cup {Ghost, Null} : \E body \in SignUpBodies :
       StartSignUp(1, session, body)
  \/ \E f \in BOOLEAN :
       (SignUpFind(1, f) \/ SignUpSave(1, f)) /\ UNCHANGED others
  \/ \E session \in Users \cup {Ghost, Null} : \E paramId \in Users \cup {BadId} :
       StartGate("allowSelfOrPriv", TRUE, session, paramId)
  \/ RequireAuth
  \/ AllowSelfOrPrivMe(FALSE)
  \/ AllowSelfOrPrivTarget(FALSE)
  \/ \E body \in PutUserBodies : StartPutUser(1, body)
  \/ \E f \in BOOLEAN :
       (PutUserFind(1, f) \/ PutUserClerk(1, f) \/ PutUserUpdate(1, f))
         /\ UNCHANGED others

SpecAccounts == InitAccounts /\ [][NextAccounts]_vars

\* The roles the requester's identity had when the handler started
RolesBefore ==
  {pre.users[u].privilege :
     u \in {v \in Users : pre.users[v].exists /\ pre.users[v].clerkId = gate.session}}

\* C29: a request of a student changes no user's role: a sign-up creates a
\* student, and a PUT /user/:id leaves every role as it was.
C29_StudentKeepsRoles ==
  (req[1].op \in {"signUp", "putUser"} /\ RolesBefore = {"student"}) =>
    \A u \in Users :
      users[u].exists =>
        users[u].privilege = (IF pre.users[u].exists THEN pre.users[u].privilege
                              ELSE "student")

\* --------------- PUT /classes/:id, /conversations/:id, /ielts/:id
\* The fields the class form submits to a route
FormFields(route) ==
  IF route = "classes" THEN {"level", "ageGroup", "instructor", "schedule"}
  ELSE {"ageGroup", "instructor", "schedule"}

\* req.body of an edit: the form's fields, the schedule of one slot at
\* most, with or without a roster
EditBodies(route) ==
  {[k \in FormFields(route) |-> b[k]] @@ extra :
     b \in {x \in Bodies(route) : Len(x.schedule) <= 1},
     extra \in {<<>>} \cup {[k \in {"roster"} |-> arr] :
                  arr \in {EmptyArray(Users), AddToSet(EmptyArray(Users), 1)}}}

\* What the duplicate search reads: level, ageGroup, instructor, schedule
Searched4(route, updates) ==
  [level |-> IF "level" \in DOMAIN updates THEN updates.level ELSE Sentinel(""),
   ageGroup |-> updates.ageGroup, instructor |-> updates.instructor,
   schedule |-> updates.schedule]

EditInvalidMsg(route) ==
  IF route = "conversations" THEN "Invalid Conversation Class ID"
  ELSE IF route = "ielts" THEN "Invalid IELTS Class ID"
  ELSE "Invalid ID"

EditExistsMsg(route) ==
  IF route = "conversations" THEN "Conversation class already exists"
  ELSE IF route = "ielts" THEN "IELTS class already exists"
  ELSE "Class already exists"

EditNotFoundMsg(route) ==
  IF route = "conversations" THEN "Conversation class not found"
  ELSE IF route = "ielts" THEN "IELTS class not found"
  ELSE "Class not found"

EditFailedMsg(route) ==
  IF route = "conversations" THEN "Failed to update conversation class"
  ELSE IF route = "ielts" THEN "Failed to update IELTS class"
  ELSE "Failed to update class details"

\* An edit arrives; the routes have no middleware
StartEditClass(r, session, route, id, updates) ==
  /\ Unguarded("editClass", session)
  /\ req[r].pc = "idle"
  /\ req' = [req EXCEPT ![r] =
       IF id = BadId
       THEN [Idle EXCEPT !.op = "editClass", !.route = route, !.body = updates,
                         !.pc = "done", !.status = 400, !.msg = EditInvalidMsg(route)]
       ELSE [Idle EXCEPT !.op = "editClass", !.route = route, !.id = id,
                         !.body = updates, !.pc = "find"]]
  /\ pre' = Store
  /\ repeated' = FALSE
  /\ UNCHANGED <<users, classes, clerk, db, list>>

\* Class.find({ level, ageGroup, instructor }), and the duplicate among
\* those of the same schedule
EditClassFind(r, f) ==
  /\ At(r, "editClass", "find")
  /\ IF f THEN Respond(r, 500, EditFailedMsg(req[r].route))
     ELSE IF MatchingSchedules(req[r].route, Searched4(req[r].route, req[r].body))
               \ {req[r].id} # {}
     THEN Respond(r, 409, EditExistsMsg(req[r].route))
     ELSE Goto(r, "update")
  /\ UNCHANGED <<users, classes, clerk, pre, repeated>>

\* Class.findByIdAndUpdate(id, updates, ...), or findOneAndUpdate with the
\* track's level in the filter
EditClassUpdate(r, f) ==
  /\ At(r, "editClass", "update")
  /\ IF f THEN Respond(r, 500, EditFailedMsg(req[r].route)) /\ UNCHANGED classes
     ELSE IF ~RouteFinds(req[r].route, classes[req[r].id])
     THEN Respond(r, 404, EditNotFoundMsg(req[r].route)) /\ UNCHANGED classes
     ELSE /\ Respond(r, 200, "")
          /\ classes' = [classes EXCEPT ![req[r].id] = Assign(@, req[r].body)]
  /\ UNCHANGED <<users, clerk, pre, repeated>>

\* One request, to update a user or to edit a class
NextEdit ==
  \/ \E session \in Users \cup {Ghost, Null} : \E route \in ClassRoutes :
     \E id \in Classes \cup {BadId} : \E updates \in EditBodies(route) :
       StartEditClass(1, session, route, id, updates)
  \/ \E f \in BOOLEAN :
       (EditClassFind(1, f) \/ EditClassUpdate(1, f)) /\ UNCHANGED others
  \/ \E session \in Users \cup {Ghost, Null} : \E paramId \in Users \cup {BadId} :
       StartGate("allowSelfOrPriv", TRUE, session, paramId)
  \/ RequireAuth
  \/ AllowSelfOrPrivMe(FALSE)
  \/ AllowSelfOrPrivTarget(FALSE)
  \/ \E body \in PutUserBodies : StartPutUser(1, body)
  \/ (PutUserFind(1, FALSE) \/ PutUserClerk(1, FALSE) \/ PutUserUpdate(1, FALSE))
       /\ UNCHANGED others

SpecEdit == Init /\ [][NextEdit]_vars

\* C30: an update of a user and an edit of a class change no membership:
\* every enrolledClasses and every roster stays as it was.
C30_EditsKeepMembership ==
  req[1].op \in {"putUser", "editClass"} =>
    /\ \A u \in Users : users[u].enrolledClasses = pre.users[u].enrolledClasses
    /\ \A c \in Classes : classes[c].roster = pre.classes[c].roster
====
